---- MODULE Spec2Model ----
(***************************************************************************)
(* Model of the assessment, grading and ranking code of the NaCCA school   *)
(* management system (routes/assessments.py, models, config.py, app.py).   *)
(*                                                                         *)
(* Scores are Python floats.  A float is modelled as an integer number of  *)
(* 1/Scale marks (Scale = 2: half marks, so 79.5 is the integer 159), plus *)
(* the value NaN.  Null is Python's None / SQL NULL in a numeric column.   *)
(***************************************************************************)
EXTENDS Integers, Sequences, FiniteSets, TLC

VARIABLES
    assessments,       \* the committed rows of table assessments
    terminal_reports,  \* the committed rows of table terminal_reports
    class_subjects,    \* the rows of table class_subjects
    students,          \* the ids of the rows of table students
    class_enrollments, \* the rows of table class_enrollments
    fee_invoices,      \* the rows of table fee_invoices
    payments,          \* the rows of table payments
    current_term,      \* id of the Term with is_current, 0 when there is none
    response,          \* what the last request answered
    sessions,          \* the database session of each request in flight
    served,            \* how many writing requests and events have happened
    probe              \* pure-function specifications: input and result;
                       \* SpecBatch: the JSON body of the last request

vars == <<assessments, terminal_reports, class_subjects, students, class_enrollments, fee_invoices, payments, current_term, response, sessions, served, probe>>

-----------------------------------------------------------------------------
(* Bounds of the model.                                                    *)

Scale == 2
NumStudents == 3
MaxRequests == 3
MaxLen == 4
MaxScore == 3

-----------------------------------------------------------------------------
(* Python values.                                                          *)

NaN == -1
Null == -2
NullStr == "NULL"

\* a > b on Python floats: every comparison with nan is False
PyGt(a, b) == a # NaN /\ b # NaN /\ a > b

\* a <= b on Python floats
PyLe(a, b) == a # NaN /\ b # NaN /\ a <= b

\* a != b on Python floats (neither is None): nan != nan is True
PyNe(a, b) == a = NaN \/ b = NaN \/ a # b

\* a + b on Python floats
PyAdd(a, b) == IF a = NaN \/ b = NaN THEN NaN ELSE a + b

\* max(a, b): the builtin keeps a unless b > a
PyMax(a, b) == IF PyGt(b, a) THEN b ELSE a

\* min(a, b): the builtin keeps a unless b < a
PyMin(a, b) == IF PyGt(a, b) THEN b ELSE a

\* (x or 0) on a stored component: None and 0 are falsy, nan is truthy
OrZero(x) == IF x = Null \/ x = 0 THEN 0 ELSE x

-----------------------------------------------------------------------------
(* JSON values of a score entry, as request.get_json() returns them.       *)

Absent == [kind |-> "absent", v |-> 0]
JsonNull == [kind |-> "null", v |-> 0]
EmptyStr == [kind |-> "str_empty", v |-> 0]
NanStr == [kind |-> "str_nan", v |-> 0]
TextStr == [kind |-> "str_text", v |-> 0]
Num(x) == [kind |-> "num", v |-> x]
NumStr(x) == [kind |-> "str_num", v |-> x]

\* score_data.get(key, 0)
DictGet(raw) == IF raw.kind = "absent" THEN Num(0) ELSE raw

\* truth value of a JSON value
Truthy(raw) ==
    CASE raw.kind = "null" -> FALSE
      [] raw.kind = "str_empty" -> FALSE
      [] raw.kind = "num" -> raw.v # 0
      [] OTHER -> TRUE

\* (value or 0)
OrZeroRaw(raw) == IF Truthy(raw) THEN raw ELSE Num(0)

\* float(x) raises ValueError on a string that is not a number
FloatRaises(raw) == OrZeroRaw(DictGet(raw)).kind = "str_text"

\* float(score_data.get(key, 0) or 0); float("nan") is nan
ToFloat(raw) ==
    LET x == OrZeroRaw(DictGet(raw))
    IN  IF x.kind = "str_nan" THEN NaN ELSE x.v

-----------------------------------------------------------------------------
(* Component maxima and the grading scale (config.py).                     *)

ClassworkMax == 30
HomeworkMax == 10
ProjectMax == 10
ExamMax == 50

\* min(max(x, 0), hi) with hi in marks
ClampLowNone(x, hi) == PyMin(x, hi * Scale)
Clamp(x, hi) == PyMin(PyMax(x, 0), hi * Scale)

ScaleWithGap(level) ==
    << <<80, 100, "1", "Highest">>, <<0, 78, "9", "Very Low">> >>

\* Config.NACCA_GRADING_SCALE[level], in dict order: <<min, max, grade, remark>>
NACCA_GRADING_SCALE(level) ==
    CASE level = "PRIMARY" ->
           << <<80, 100, "1", "Highest">>, <<70, 79, "2", "Higher">>,
              <<60, 69, "3", "High">>, <<50, 59, "4", "High Average">>,
              <<40, 49, "5", "Average">>, <<30, 39, "6", "Low Average">>,
              <<25, 29, "7", "Below Average">>, <<20, 24, "8", "Low">>,
              <<0, 19, "9", "Very Low">> >>
      [] level = "JHS" ->
           << <<80, 100, "1", "Excellent">>, <<70, 79, "2", "Very Good">>,
              <<60, 69, "3", "Good">>, <<55, 59, "4", "Credit">>,
              <<50, 54, "5", "Credit">>, <<45, 49, "6", "Credit">>,
              <<40, 44, "7", "Pass">>, <<35, 39, "8", "Pass">>,
              <<0, 34, "9", "Fail">> >>
      [] level = "SHS" ->
           << <<80, 100, "A1", "Excellent">>, <<70, 79, "B2", "Very Good">>,
              <<60, 69, "B3", "Good">>, <<55, 59, "C4", "Credit">>,
              <<50, 54, "C5", "Credit">>, <<45, 49, "C6", "Credit">>,
              <<40, 44, "D7", "Pass">>, <<35, 39, "E8", "Pass">>,
              <<0, 34, "F9", "Fail">> >>
      [] OTHER -> << >>

GradingLevels == {"PRIMARY", "JHS", "SHS"}

\* min_score <= total <= max_score
InInterval(e, total) == PyLe(e[1] * Scale, total) /\ PyLe(total, e[2] * Scale)

-----------------------------------------------------------------------------
(* Assessment rows.                                                        *)

\* Assessment(student_id=..., class_subject_id=..., term_id=..., recorded_by_id=...)
NewAssessment(id, student_id, class_subject_id, term_id, user) ==
    [id |-> id, student_id |-> student_id, class_subject_id |-> class_subject_id,
     term_id |-> term_id, classwork_score |-> Null, homework_score |-> Null,
     project_score |-> Null, exam_score |-> Null, total_score |-> Null,
     grade |-> NullStr, grade_remark |-> NullStr, class_position |-> Null,
     recorded_by_id |-> user]

\* Assessment.calculate_total
calculate_total(a) ==
    [a EXCEPT !.total_score =
        PyAdd(PyAdd(PyAdd(OrZero(a.classwork_score), OrZero(a.homework_score)),
                    OrZero(a.project_score)), OrZero(a.exam_score))]

\* calculate_grade_for_assessment: the first interval holding the total
calculate_grade_for_assessment(a0, level) ==
    LET a == IF a0.total_score = Null THEN calculate_total(a0) ELSE a0
        scale == NACCA_GRADING_SCALE(level)
        hits == {i \in 1..Len(scale) : InInterval(scale[i], a.total_score)}
    IN  IF hits = {}
        THEN [a EXCEPT !.grade = NullStr, !.grade_remark = NullStr]
        ELSE LET i == CHOOSE k \in hits : \A j \in hits : k <= j
             IN  [a EXCEPT !.grade = scale[i][3], !.grade_remark = scale[i][4]]

\* a float() of the entry raises
EntryRaises(score_data) ==
    \/ FloatRaises(score_data.classwork)
    \/ FloatRaises(score_data.homework)
    \/ FloatRaises(score_data.project)
    \/ FloatRaises(score_data.exam)

\* save_scores, "Update scores with validation" and "Calculate total and grade"
UpdateScores(a, score_data, level) ==
    LET b == [a EXCEPT
                !.classwork_score = Clamp(ToFloat(score_data.classwork), ClassworkMax),
                !.homework_score = Clamp(ToFloat(score_data.homework), HomeworkMax),
                !.project_score = Clamp(ToFloat(score_data.project), ProjectMax),
                !.exam_score = Clamp(ToFloat(score_data.exam), ExamMax)]
    IN  calculate_grade_for_assessment(calculate_total(b), level)

-----------------------------------------------------------------------------
(* The rank loop of calculate_class_positions and                          *)
(* calculate_terminal_positions (the two loops are the same code).         *)

RECURSIVE RankFrom(_, _, _, _, _)
RankFrom(scores, k, position, prev_score, acc) ==
    IF k > Len(scores) THEN acc
    ELSE LET p == IF prev_score # Null /\ PyNe(scores[k], prev_score)
                  THEN k ELSE position
         IN  RankFrom(scores, k + 1, p, scores[k], Append(acc, p))

RankLoopDense(scores) ==
    [k \in 1..Len(scores) |->
        1 + Cardinality({scores[j] : j \in {i \in 1..Len(scores) : scores[i] > scores[k]}})]

\* position = 1; prev_score = None; for i, x in enumerate(xs): ...
RankLoop(scores) == RankFrom(scores, 1, 1, Null, << >>)

-----------------------------------------------------------------------------
(* Pure-function specifications.                                           *)

NoResponse ==
    [op |-> "none", user |-> 0, status |-> 0, class_subject_id |-> 0, failed_at |-> 0,
     class_id |-> 0, flash |-> "", generated_count |-> 0, shown |-> {},
     recent_assessments |-> {}]

\* the JSON values a component of an entry is drawn from
NumInputs == {0 - Scale, 0, 1, HomeworkMax * Scale, HomeworkMax * Scale + 1,
              ClassworkMax * Scale, ClassworkMax * Scale + 1,
              ExamMax * Scale, ExamMax * Scale + 1}

RawInputs == {Absent, JsonNull, EmptyStr, NanStr, TextStr, Num(NaN)}
                 \cup {Num(x) : x \in NumInputs} \cup {NumStr(ExamMax * Scale - 1)}

ProbeEntries ==
    [student_id : {1}, classwork : RawInputs, homework : RawInputs,
     project : {Absent, Num(1), Num(ProjectMax * Scale + 1)},
     exam : {Absent, Num(0 - Scale), Num(ExamMax * Scale - 1), NanStr}]

InitScores ==
    /\ assessments = {}
    /\ terminal_reports = {}
    /\ class_subjects = {}
    /\ students = {}
    /\ class_enrollments = {}
    /\ fee_invoices = {}
    /\ payments = {}
    /\ current_term = 1
    /\ response = NoResponse
    /\ sessions = << >>
    /\ served = 0
    /\ probe \in [entry : ProbeEntries, level : GradingLevels, state : {"input"},
                  row : {NewAssessment(1, 1, 1, 1, 1)}]

\* one pass of the loop body of save_scores on a new Assessment
ScoreEntry ==
    /\ probe.state = "input"
    /\ probe' = IF EntryRaises(probe.entry)
                THEN [probe EXCEPT !.state = "raised"]
                ELSE [probe EXCEPT !.state = "stored",
                         !.row = UpdateScores(probe.row, probe.entry, probe.level)]
    /\ UNCHANGED <<assessments, terminal_reports, class_subjects, students, class_enrollments, fee_invoices, payments, current_term, response, sessions, served>>

NextScores == ScoreEntry

SpecScores == InitScores /\ [][NextScores]_vars

\* the largest total four clamped components can add up to
MaxTotal == ClassworkMax + HomeworkMax + ProjectMax + ExamMax

InitGrades ==
    /\ assessments = {}
    /\ terminal_reports = {}
    /\ class_subjects = {}
    /\ students = {}
    /\ class_enrollments = {}
    /\ fee_invoices = {}
    /\ payments = {}
    /\ current_term = 1
    /\ response = NoResponse
    /\ sessions = << >>
    /\ served = 0
    /\ probe \in [total : 0..MaxTotal, level : GradingLevels, state : {"input"},
                  row : {NewAssessment(1, 1, 1, 1, 1)}]

\* calculate_grade_for_assessment on an Assessment with an integer total
GradeTotal ==
    /\ probe.state = "input"
    /\ probe' = [probe EXCEPT !.state = "graded",
                    !.row = calculate_grade_for_assessment(
                               [probe.row EXCEPT !.total_score = probe.total * Scale],
                               probe.level)]
    /\ UNCHANGED <<assessments, terminal_reports, class_subjects, students, class_enrollments, fee_invoices, payments, current_term, response, sessions, served>>

NextGrades == GradeTotal

SpecGrades == InitGrades /\ [][NextGrades]_vars

\* Config.SCHOOL_LEVELS, the values Class.level takes
SCHOOL_LEVELS == {"Creche", "Nursery", "Kindergarten", "Primary", "JHS", "SHS"}

\* str.upper() on the level names of Config.SCHOOL_LEVELS
Upper(s) ==
    CASE s = "Primary" -> "PRIMARY"
      [] s = "Creche" -> "CRECHE"
      [] s = "Nursery" -> "NURSERY"
      [] s = "Kindergarten" -> "KINDERGARTEN"
      [] OTHER -> s

\* save_scores: class_obj.level.upper(), PRIMARY when that is no key of the scale
NormalizeLevel(level) ==
    IF Upper(level) \in GradingLevels THEN Upper(level) ELSE "PRIMARY"

\* api_calculate_grade on the JSON body data: what it answers
api_calculate_grade(data) ==
    LET classwork == Clamp(ToFloat(data.classwork), ClassworkMax)
        homework == Clamp(ToFloat(data.homework), HomeworkMax)
        project == Clamp(ToFloat(data.project), ProjectMax)
        exam == Clamp(ToFloat(data.exam), ExamMax)
        level == Upper(data.level)
        total == PyAdd(PyAdd(PyAdd(classwork, homework), project), exam)
        scale == NACCA_GRADING_SCALE(level)
        hits == {i \in 1..Len(scale) : InInterval(scale[i], total)}
    IN  IF hits = {}
        THEN [total |-> total, grade |-> NullStr, remark |-> NullStr]
        ELSE LET i == CHOOSE k \in hits : \A j \in hits : k <= j
             IN  [total |-> total, grade |-> scale[i][3], remark |-> scale[i][4]]

PreviewInputs ==
    [classwork : {Absent, Num(ClassworkMax * Scale + 1)},
     homework : {Absent, Num(Scale)},
     project : {Absent},
     exam : {Absent, Num(40 * Scale), Num(50 * Scale), Num(ExamMax * Scale + 1)},
     level : SCHOOL_LEVELS]

InitPreview ==
    /\ assessments = {}
    /\ terminal_reports = {}
    /\ class_subjects = {}
    /\ students = {}
    /\ class_enrollments = {}
    /\ fee_invoices = {}
    /\ payments = {}
    /\ current_term = 1
    /\ response = NoResponse
    /\ sessions = << >>
    /\ served = 0
    /\ probe \in [data : PreviewInputs, state : {"input"},
                  row : {NewAssessment(1, 1, 1, 1, 1)},
                  preview : {[total |-> Null, grade |-> NullStr, remark |-> NullStr]}]

\* the same components previewed for a level and stored for a class of that level
PreviewAndStore ==
    /\ probe.state = "input"
    /\ probe' = [probe EXCEPT
                    !.state = "done",
                    !.preview = api_calculate_grade(probe.data),
                    !.row = UpdateScores(
                               probe.row,
                               [student_id |-> 1, classwork |-> probe.data.classwork,
                                homework |-> probe.data.homework,
                                project |-> probe.data.project,
                                exam |-> probe.data.exam],
                               NormalizeLevel(probe.data.level))]
    /\ UNCHANGED <<assessments, terminal_reports, class_subjects, students, class_enrollments, fee_invoices, payments, current_term, response, sessions, served>>

NextPreview == PreviewAndStore

SpecPreview == InitPreview /\ [][NextPreview]_vars

\* lists of numbers sorted by score descending
SortedLists ==
    UNION {{s \in [1..n -> 0..MaxScore] : \A i \in 1..n - 1 : s[i] >= s[i + 1]}
           : n \in 0..MaxLen}

InitRank ==
    /\ assessments = {}
    /\ terminal_reports = {}
    /\ class_subjects = {}
    /\ students = {}
    /\ class_enrollments = {}
    /\ fee_invoices = {}
    /\ payments = {}
    /\ current_term = 1
    /\ response = NoResponse
    /\ sessions = << >>
    /\ served = 0
    /\ probe \in [scores : SortedLists, state : {"input"}, positions : {<< >>}]

ApplyRank ==
    /\ probe.state = "input"
    /\ probe' = [probe EXCEPT !.state = "ranked", !.positions = RankLoop(probe.scores)]
    /\ UNCHANGED <<assessments, terminal_reports, class_subjects, students, class_enrollments, fee_invoices, payments, current_term, response, sessions, served>>

NextRank == ApplyRank

SpecRank == InitRank /\ [][NextRank]_vars

-----------------------------------------------------------------------------
(* The tables save_scores reads: students, users, classes, class_subjects. *)

Students == 1..NumStudents

\* a student id that is in no row of table students
GhostStudent == NumStudents + 7

\* a student enrolled in class 2
JhsStudent == NumStudents + 1

\* the rows of table students
AllStudents == Students \cup {JhsStudent}

\* Student.parent_id
StudentParent(student_id) ==
    IF student_id = 1 THEN 1 ELSE IF student_id = 2 THEN 2 ELSE Null

\* Student.school_id
StudentSchool(student_id) == 1

\* user 5 has the parent role and no parent profile; user 6 is the admin of
\* another school
UserTable ==
    { [id |-> 1, role |-> "admin", staff_id |-> Null, parent_id |-> Null, school_id |-> 1],
      [id |-> 2, role |-> "teacher", staff_id |-> 1, parent_id |-> Null, school_id |-> 1],
      [id |-> 3, role |-> "teacher", staff_id |-> 2, parent_id |-> Null, school_id |-> 1],
      [id |-> 4, role |-> "parent", staff_id |-> Null, parent_id |-> 1, school_id |-> 1],
      [id |-> 5, role |-> "parent", staff_id |-> Null, parent_id |-> Null, school_id |-> 1],
      [id |-> 6, role |-> "admin", staff_id |-> Null, parent_id |-> Null, school_id |-> 2],
      [id |-> 7, role |-> "teacher", staff_id |-> Null, parent_id |-> Null, school_id |-> 1],
      [id |-> 8, role |-> "accounts_officer", staff_id |-> Null, parent_id |-> Null,
       school_id |-> 1] }

ClassTable ==
    { [id |-> 1, level |-> "Primary", class_teacher_id |-> 1],
      [id |-> 2, level |-> "JHS", class_teacher_id |-> 2],
      [id |-> 3, level |-> "SHS", class_teacher_id |-> Null],
      [id |-> 4, level |-> "Kindergarten", class_teacher_id |-> Null] }

ClassSubjectTable ==
    { [id |-> 1, class_id |-> 1, teacher_id |-> 1],
      [id |-> 2, class_id |-> 1, teacher_id |-> 2],
      [id |-> 3, class_id |-> 2, teacher_id |-> 2],
      [id |-> 4, class_id |-> 3, teacher_id |-> 2],
      [id |-> 5, class_id |-> 4, teacher_id |-> 1] }

\* the AcademicYear with is_current
CurrentAcademicYear == 1

ClassEnrollmentTable ==
    {[id |-> st, student_id |-> st, class_id |-> IF st = JhsStudent THEN 2 ELSE 1,
      academic_year_id |-> CurrentAcademicYear] : st \in AllStudents}

TermIds == {1, 2}

\* Class.school_id: the classes above are classes of school 1
ClassSchool(class_id) == 1

\* the current Term of school 2 (the terms of TermIds are terms of school 1)
OtherTermTable == {[id |-> 3, start_date |-> 10, end_date |-> 20]}

\* Term.academic_year.school_id
TermSchool(term_id) == IF \E tm \in OtherTermTable : tm.id = term_id THEN 2 ELSE 1

UserGet(id) == CHOOSE u \in UserTable : u.id = id

\* before_request: g.current_term, the current Term of the current
\* academic year of the user's school, 0 when there is none
g_current_term(user) ==
    IF \E u \in UserTable : u.id = user /\ u.school_id # 1
    THEN (CHOOSE tm \in OtherTermTable : TRUE).id
    ELSE current_term

\* teacher_required lets these roles through
TeacherRoles == {"super_admin", "headteacher", "admin", "teacher"}

\* "not class_subject_id": a missing key gives None, and None and 0 are falsy
MissingId(x) == x = Null \/ x = 0

\* "if not class_subject_id or not g.current_term"
InvalidRequestNoTermCheck(class_subject_id, term) == MissingId(class_subject_id)
InvalidRequest(class_subject_id, term) == MissingId(class_subject_id) \/ term = 0

\* ClassSubject.query.get(class_subject_id) found nothing
SubjectNotFound(class_subject_id) ==
    \A cs \in class_subjects : cs.id # class_subject_id

GradingLevelPrimary(class_subject_id) == "PRIMARY"

\* "Determine grading level from class"
GradingLevel(class_subject_id) ==
    LET cs == CHOOSE c \in class_subjects : c.id = class_subject_id
        cl == {c \in ClassTable : c.id = cs.class_id}
    IN  IF cl = {} THEN "PRIMARY" ELSE NormalizeLevel((CHOOSE c \in cl : TRUE).level)

-----------------------------------------------------------------------------
(* The database session of one save_scores request.                        *)
(* rows: the rows the session has flushed (written, not committed);        *)
(* pending: the row changed by the last loop pass, flushed by the next     *)
(* query (autoflush); posw: the class_position changes flushed by commit.  *)

Ids(rows) == {a.id : a \in rows}

SameKey(a, b) ==
    /\ a.student_id = b.student_id
    /\ a.class_subject_id = b.class_subject_id
    /\ a.term_id = b.term_id

IdleSession ==
    [pc |-> "idle", user |-> 0, class_subject_id |-> 0, term_id |-> 0,
     level |-> "PRIMARY", scores |-> << >>, k |-> 1, rows |-> {}, pending |-> {},
     posw |-> {}, failed_at |-> 0]

\* save_scores up to the loop: the decorator, the two checks, the level
Begin(user, data, term) ==
    IF UserGet(user).role \notin TeacherRoles
    THEN [IdleSession EXCEPT !.pc = "redirect"]
    ELSE IF InvalidRequest(data.class_subject_id, term)
    THEN [IdleSession EXCEPT !.pc = "bad_request"]
    ELSE IF SubjectNotFound(data.class_subject_id)
    THEN [IdleSession EXCEPT !.pc = "not_found"]
    ELSE [IdleSession EXCEPT
            !.pc = IF Len(data.scores) = 0 THEN "rank" ELSE "loop",
            !.user = user, !.class_subject_id = data.class_subject_id,
            !.term_id = term, !.level = GradingLevel(data.class_subject_id),
            !.scores = data.scores]

\* the flush of the pending row violates NOT NULL, the foreign key to
\* students, or uq_student_subject_term
FlushError(table, s) ==
    \E p \in s.pending :
        /\ p.id \notin Ids(table) \cup Ids(s.rows)
        /\ \/ p.student_id \notin students
           \/ \E c \in table \cup s.rows : SameKey(c, p)

\* the flush waits for a row or a unique key another session has written
FlushBlocked(others, s) ==
    \E p \in s.pending : \E o \in others : \E c \in o.rows :
        c.id = p.id \/ SameKey(c, p)

Flushed(s) ==
    [s EXCEPT !.rows = {c \in s.rows : \A p \in s.pending : c.id # p.id}
                          \cup s.pending,
              !.pending = {}]

\* what a query of the session sees: the committed rows and its own writes
View(table, s) == {c \in table : c.id \notin Ids(s.rows)} \cup s.rows

NextId(used) == IF used = {} THEN 1 ELSE 1 + CHOOSE m \in used : \A n \in used : n <= m

FindAssessmentAnyStudent(rows, student_id, class_subject_id, term_id) ==
    {a \in rows : a.class_subject_id = class_subject_id /\ a.term_id = term_id}

\* Assessment.query.filter_by(student_id, class_subject_id, term_id)
FindAssessment(rows, student_id, class_subject_id, term_id) ==
    {a \in rows : /\ a.student_id = student_id
                  /\ a.class_subject_id = class_subject_id
                  /\ a.term_id = term_id}

\* one pass of "for score_data in scores"; used: the ids already given out
EntryStep(table, used, s) ==
    IF FlushError(table, s)
    THEN [s EXCEPT !.pc = "failed", !.failed_at = s.k - 1]
    ELSE
    LET f == Flushed(s)
        score_data == f.scores[f.k]
        found == FindAssessment(View(table, f), score_data.student_id,
                                f.class_subject_id, f.term_id)
        a == IF found = {}
             THEN NewAssessment(NextId(used), score_data.student_id,
                                f.class_subject_id, f.term_id, f.user)
             ELSE CHOOSE x \in found : \A y \in found : x.id <= y.id
    IN  IF EntryRaises(score_data)
        THEN [f EXCEPT !.pc = "failed", !.failed_at = f.k]
        ELSE [f EXCEPT !.pending = {UpdateScores(a, score_data, f.level)},
                       !.k = f.k + 1,
                       !.pc = IF f.k = Len(f.scores) THEN "rank" ELSE "loop"]

\* PostgreSQL's ORDER BY x DESC: NULL first, then NaN, then the numbers
DbDescGe(x, y) ==
    CASE x = Null -> TRUE
      [] y = Null -> FALSE
      [] x = NaN -> TRUE
      [] y = NaN -> FALSE
      [] OTHER -> x >= y

\* the orders in which ORDER BY total_score DESC may return the rows
Orderings(rows) ==
    LET n == Cardinality(rows)
    IN  {q \in [1..n -> rows] :
            /\ \A i, j \in 1..n : i # j => q[i] # q[j]
            /\ \A i \in 1..n - 1 : DbDescGe(q[i].total_score, q[i + 1].total_score)}

CohortAnySubject(rows, class_subject_id, term_id) ==
    {a \in rows : a.term_id = term_id}

\* the rows calculate_class_positions queries
Cohort(rows, class_subject_id, term_id) ==
    {a \in rows : a.class_subject_id = class_subject_id /\ a.term_id = term_id}

\* calculate_class_positions on the rows in query order q: the changed positions
calculate_class_positions(q) ==
    LET pos == RankLoop([i \in 1..Len(q) |-> q[i].total_score])
    IN  {<<q[i].id, pos[i]>> : i \in {j \in 1..Len(q) : q[j].class_position # pos[j]}}

RankOrders(table, s) ==
    Orderings(Cohort(View(table, Flushed(s)), s.class_subject_id, s.term_id))

RankStep(table, s, q) ==
    [Flushed(s) EXCEPT !.pc = "commit", !.posw = calculate_class_positions(q)]

\* the commit waits for a row another session has written
CommitBlocked(others, s) ==
    \E w \in s.posw : \E o \in others : \E c \in o.rows : c.id = w[1]

\* db.session.commit(): the table after the session's writes
Commit(table, s) ==
    LET PosOf(id, dflt) ==
            IF \E w \in s.posw : w[1] = id
            THEN (CHOOSE w \in s.posw : w[1] = id)[2] ELSE dflt
        Base(r) ==
            IF \E c \in table : c.id = r.id
            THEN (CHOOSE c \in table : c.id = r.id).class_position
            ELSE r.class_position
    IN  {[c EXCEPT !.class_position = PosOf(c.id, c.class_position)] :
            c \in {x \in table : x.id \notin Ids(s.rows)}}
        \cup {[r EXCEPT !.class_position = PosOf(r.id, Base(r))] : r \in s.rows}

\* db.session.rollback() of internal_error: the table a failed request leaves
RollbackKeepsWrites(table, s) == Commit(table, Flushed(s))
Rollback(table, s) == table

\* the loop run to its end in one request
RECURSIVE RunLoop(_, _)
RunLoop(table, s) ==
    IF s.pc = "loop"
    THEN RunLoop(table, EntryStep(table, Ids(table) \cup Ids(s.rows) \cup Ids(s.pending), s))
    ELSE IF s.pc = "rank" /\ FlushError(table, s)
    THEN [s EXCEPT !.pc = "failed", !.failed_at = s.k - 1]
    ELSE s

Respond(op, user, status, class_subject_id, failed_at) ==
    [NoResponse EXCEPT !.op = op, !.user = user, !.status = status,
                       !.class_subject_id = class_subject_id, !.failed_at = failed_at]

-----------------------------------------------------------------------------
(* Requests served one at a time.                                          *)

StatusOf(pc) ==
    CASE pc = "redirect" -> 302
      [] pc = "bad_request" -> 400
      [] pc = "not_found" -> 404
      [] pc = "failed" -> 500
      [] OTHER -> 200

\* POST /assessments/save by user with JSON body data
SaveScores(user, data) ==
    LET b == Begin(user, data, g_current_term(user))
        s == RunLoop(assessments, b)
    IN  /\ served' = served + 1
        /\ response' = Respond("save_scores", user, StatusOf(s.pc),
                               data.class_subject_id, s.failed_at)
        /\ IF s.pc \in {"redirect", "bad_request", "not_found"}
           THEN UNCHANGED assessments
           ELSE IF s.pc = "failed"
           THEN assessments' = Rollback(assessments, s)
           ELSE \E q \in RankOrders(assessments, s) :
                   assessments' = Commit(assessments, RankStep(assessments, s, q))
        /\ UNCHANGED <<terminal_reports, class_subjects, students, class_enrollments, fee_invoices, payments, current_term, sessions>>

\* another Term (or none) becomes the current one; before_request reads it
SetCurrentTerm(t) ==
    /\ served' = served + 1
    /\ t # current_term
    /\ current_term' = t
    /\ response' = NoResponse
    /\ UNCHANGED <<assessments, terminal_reports, class_subjects, students, class_enrollments, fee_invoices, payments, sessions, probe>>

\* the component values of an entry
Exam50 == [classwork |-> Absent, homework |-> Absent, project |-> Absent,
           exam |-> Num(50 * Scale)]
Exam40 == [classwork |-> Absent, homework |-> Absent, project |-> Absent,
           exam |-> Num(40 * Scale)]
NanWork == [classwork |-> NanStr, homework |-> Absent, project |-> Absent,
            exam |-> Absent]
HalfMark == [classwork |-> Num(ClassworkMax * Scale + 1), homework |-> Num(0 - Scale),
             project |-> EmptyStr, exam |-> Num(ExamMax * Scale - 1)]
BadText == [classwork |-> Absent, homework |-> Absent, project |-> Absent,
            exam |-> TextStr]

Entry(student_id, p) ==
    [student_id |-> student_id, classwork |-> p.classwork, homework |-> p.homework,
     project |-> p.project, exam |-> p.exam]

\* the batches of at most one entry, and of at most two, over a set of entries
Singles(entries) == {<< >>} \cup {<<e>> : e \in entries}
BatchesOf(entries) ==
    Singles(entries) \cup {<<e1, e2>> : e1 \in entries, e2 \in entries}

\* the students whose scores are entered for a cohort
Roster(class_subject_id, term) ==
    IF class_subject_id = 1 /\ term = 1 THEN Students ELSE {1}

MainProfiles(class_subject_id, term) ==
    IF class_subject_id = 1 /\ term = 1 THEN {Exam50, Exam40, NanWork} ELSE {Exam50}

MainBatches(class_subject_id, term) ==
    Singles({Entry(st, p) : st \in Roster(class_subject_id, term),
                            p \in MainProfiles(class_subject_id, term)})

Init ==
    /\ assessments = {}
    /\ terminal_reports = {}
    /\ class_subjects = ClassSubjectTable
    /\ students = AllStudents
    /\ class_enrollments = ClassEnrollmentTable
    /\ fee_invoices = {}
    /\ payments = {}
    /\ current_term = 1
    /\ response = NoResponse
    /\ sessions = << >>
    /\ served = 0
    /\ probe = << >>

Next ==
    \/ /\ served < MaxRequests
       /\ \E class_subject_id \in {Null, 1, 3, 9} :
            \E scores \in MainBatches(class_subject_id, current_term) :
               /\ SaveScores(1, [class_subject_id |-> class_subject_id, scores |-> scores])
               /\ UNCHANGED probe
    \/ /\ served < MaxRequests
       /\ \E t \in {0} \cup TermIds : SetCurrentTerm(t)

Spec == Init /\ [][Next]_vars

-----------------------------------------------------------------------------
(* Scores saved for classes of every level; probe keeps the body of the    *)
(* last request.                                                           *)

MaxLevelRequests == 2

LevelBatches ==
    BatchesOf({Entry(1, Exam50), Entry(2, Exam40), Entry(2, HalfMark)})

InitLevels ==
    /\ assessments = {}
    /\ terminal_reports = {}
    /\ class_subjects = ClassSubjectTable
    /\ students = AllStudents
    /\ class_enrollments = ClassEnrollmentTable
    /\ fee_invoices = {}
    /\ payments = {}
    /\ current_term = 1
    /\ response = NoResponse
    /\ sessions = << >>
    /\ served = 0
    /\ probe = [class_subject_id |-> 1, scores |-> << >>]

NextLevels ==
    /\ served < MaxLevelRequests
    /\ \E class_subject_id \in {1, 3, 4, 5} :
         \E scores \in LevelBatches :
            LET data == [class_subject_id |-> class_subject_id, scores |-> scores]
            IN  SaveScores(1, data) /\ probe' = data

SpecLevels == InitLevels /\ [][NextLevels]_vars

-----------------------------------------------------------------------------
(* Requests with batches of up to two entries, valid and failing; probe    *)
(* keeps the body of the last request.                                     *)

MaxBatchRequests == 2

BatchEntries ==
    {Entry(1, Exam50), Entry(1, Exam40), Entry(2, Exam50), Entry(1, BadText),
     Entry(Null, Exam50), Entry(GhostStudent, Exam40)}

InitBatch ==
    /\ assessments = {}
    /\ terminal_reports = {}
    /\ class_subjects = ClassSubjectTable
    /\ students = AllStudents
    /\ class_enrollments = ClassEnrollmentTable
    /\ fee_invoices = {}
    /\ payments = {}
    /\ current_term = 1
    /\ response = NoResponse
    /\ sessions = << >>
    /\ served = 0
    /\ probe = [class_subject_id |-> 1, scores |-> << >>]

NextBatch ==
    /\ served < MaxBatchRequests
    /\ \E user \in {1, 2} :
         \E scores \in IF user = 1 THEN BatchesOf(BatchEntries)
                                   ELSE Singles({Entry(1, Exam50), Entry(2, Exam40)}) :
            LET data == [class_subject_id |-> 1, scores |-> scores]
            IN  SaveScores(user, data) /\ probe' = data

SpecBatch == InitBatch /\ [][NextBatch]_vars

-----------------------------------------------------------------------------
(* Requests in flight at the same time, each in its own database session   *)
(* (PostgreSQL's default isolation, READ COMMITTED).                       *)

MaxConcRequests == 4

Workers == {1, 2}

Others(r) == {sessions[o] : o \in {w \in Workers \ {r} :
                 sessions[w].pc \in {"loop", "rank", "commit"}}}

UsedIds == Ids(assessments) \cup
           UNION {Ids(sessions[w].rows) \cup Ids(sessions[w].pending) : w \in Workers}

\* the request arrives: save_scores up to the loop
ReqBegin(r, user, data) ==
    /\ sessions[r].pc \in {"idle", "done"}
    /\ served' = served + 1
    /\ LET b == Begin(user, data, g_current_term(user))
       IN  IF b.pc \in {"redirect", "bad_request", "not_found"}
           THEN /\ response' = Respond("save_scores", user, StatusOf(b.pc),
                                       data.class_subject_id, 0)
                /\ sessions' = [sessions EXCEPT ![r] = IdleSession]
           ELSE /\ sessions' = [sessions EXCEPT ![r] = b]
                /\ UNCHANGED response
    /\ UNCHANGED <<assessments, terminal_reports, class_subjects, students, class_enrollments, fee_invoices, payments, current_term, probe>>

\* one pass of the loop: the query flushes the row of the pass before
ReqEntry(r) ==
    /\ sessions[r].pc = "loop"
    /\ ~FlushBlocked(Others(r), sessions[r])
    /\ sessions' = [sessions EXCEPT ![r] = EntryStep(assessments, UsedIds, sessions[r])]
    /\ UNCHANGED <<assessments, terminal_reports, class_subjects, students, class_enrollments, fee_invoices, payments, current_term, response, served, probe>>

\* calculate_class_positions: its query flushes the last row
ReqRank(r) ==
    /\ sessions[r].pc = "rank"
    /\ ~FlushBlocked(Others(r), sessions[r])
    /\ IF FlushError(assessments, sessions[r])
       THEN sessions' = [sessions EXCEPT ![r].pc = "failed",
                                         ![r].failed_at = sessions[r].k - 1]
       ELSE \E q \in RankOrders(assessments, sessions[r]) :
               sessions' = [sessions EXCEPT ![r] = RankStep(assessments, sessions[r], q)]
    /\ UNCHANGED <<assessments, terminal_reports, class_subjects, students, class_enrollments, fee_invoices, payments, current_term, response, served, probe>>

\* db.session.commit() and the answer
ReqCommit(r) ==
    /\ sessions[r].pc = "commit"
    /\ ~CommitBlocked(Others(r), sessions[r])
    /\ assessments' = Commit(assessments, sessions[r])
    /\ sessions' = [sessions EXCEPT ![r] = [IdleSession EXCEPT !.pc = "done"]]
    /\ response' = Respond("save_scores", sessions[r].user, 200,
                           sessions[r].class_subject_id, 0)
    /\ UNCHANGED <<terminal_reports, class_subjects, students, class_enrollments, fee_invoices, payments, current_term, served, probe>>

\* the exception reaches internal_error: rollback, 500
ReqFail(r) ==
    /\ sessions[r].pc = "failed"
    /\ assessments' = Rollback(assessments, sessions[r])
    /\ sessions' = [sessions EXCEPT ![r] = IdleSession]
    /\ response' = Respond("save_scores", sessions[r].user, 500,
                           sessions[r].class_subject_id, sessions[r].failed_at)
    /\ UNCHANGED <<terminal_reports, class_subjects, students, class_enrollments, fee_invoices, payments, current_term, served, probe>>

\* PostgreSQL ends a deadlock by failing one of the waiting statements
ReqDeadlock(r) ==
    /\ sessions[r].pc \in {"loop", "rank", "commit"}
    /\ \/ FlushBlocked(Others(r), sessions[r])
       \/ sessions[r].pc = "commit" /\ CommitBlocked(Others(r), sessions[r])
    /\ \A o \in Workers \ {r} :
          sessions[o].pc \in {"loop", "rank", "commit"} =>
             \/ FlushBlocked(Others(o), sessions[o])
             \/ sessions[o].pc = "commit" /\ CommitBlocked(Others(o), sessions[o])
    /\ sessions' = [sessions EXCEPT ![r].pc = "failed"]
    /\ UNCHANGED <<assessments, terminal_reports, class_subjects, students, class_enrollments, fee_invoices, payments, current_term, response, served, probe>>

\* the batches worker r sends: the two workers enter different students
WorkerBatches(r) ==
    Singles({Entry(r, Exam50), Entry(r, Exam40), Entry(r, HalfMark), Entry(r, BadText)})

InitConc ==
    /\ assessments = {}
    /\ terminal_reports = {}
    /\ class_subjects = ClassSubjectTable
    /\ students = AllStudents
    /\ class_enrollments = ClassEnrollmentTable
    /\ fee_invoices = {}
    /\ payments = {}
    /\ current_term = 1
    /\ response = NoResponse
    /\ sessions = [r \in Workers |-> IdleSession]
    /\ served = 0
    /\ probe = << >>

NextConc ==
    \/ /\ served < MaxConcRequests
       /\ \E r \in Workers : \E scores \in WorkerBatches(r) :
             ReqBegin(r, 1, [class_subject_id |-> 1, scores |-> scores])
    \/ \E r \in Workers : ReqEntry(r)
    \/ \E r \in Workers : ReqRank(r)
    \/ \E r \in Workers : ReqCommit(r)
    \/ \E r \in Workers : ReqFail(r)
    \/ \E r \in Workers : ReqDeadlock(r)

SpecConc == InitConc /\ [][NextConc]_vars

-----------------------------------------------------------------------------
(* The report aggregator: generate_reports and                             *)
(* calculate_terminal_positions, with the tables they read.                *)

MaxReportRequests == 3

\* dates are day numbers
TermTable ==
    { [id |-> 1, start_date |-> 10, end_date |-> 20],
      [id |-> 2, start_date |-> 30, end_date |-> 40] }

\* date.today()
Today == 15

AttendanceTable ==
    { [student_id |-> 1, class_id |-> 1, date |-> 9, status |-> "present"],
      [student_id |-> 1, class_id |-> 1, date |-> 10, status |-> "present"],
      [student_id |-> 1, class_id |-> 1, date |-> 11, status |-> "late"],
      [student_id |-> 1, class_id |-> 1, date |-> 12, status |-> "absent"],
      [student_id |-> 1, class_id |-> 1, date |-> 13, status |-> "excused"],
      [student_id |-> 1, class_id |-> 1, date |-> 16, status |-> "present"],
      [student_id |-> 2, class_id |-> 2, date |-> 11, status |-> "present"],
      [student_id |-> 2, class_id |-> 1, date |-> 15, status |-> "absent"] }

\* User.is_admin
AdminRoles == {"super_admin", "headteacher", "admin"}

\* Class.query.get_or_404 found nothing
ClassNotFound(class_id) == \A c \in ClassTable : c.id # class_id

ReportAccessOpen(user, class_id) == FALSE

\* "must be admin or the class teacher"
ReportAccessDenied(user, class_id) ==
    LET u == UserGet(user)
        c == CHOOSE cl \in ClassTable : cl.id = class_id
    IN  /\ u.role \notin AdminRoles
        /\ (u.staff_id = Null \/ c.class_teacher_id # u.staff_id)

\* the largest number of assessments one average is taken over
MaxSubjects ==
    CHOOSE m \in 1..Cardinality(ClassSubjectTable) :
        /\ \E c \in ClassTable :
              Cardinality({cs \in ClassSubjectTable : cs.class_id = c.id}) = m
        /\ \A c \in ClassTable :
              Cardinality({cs \in ClassSubjectTable : cs.class_id = c.id}) <= m

RECURSIVE Factorial(_)
Factorial(n) == IF n <= 1 THEN 1 ELSE n * Factorial(n - 1)

\* averages are held in units of 1 / (Scale * AvgDen) marks, which makes
\* every quotient total / n with n <= MaxSubjects exact
AvgDen == Factorial(MaxSubjects)

PyDivBySubjects(total, n) ==
    IF total = NaN THEN NaN ELSE (total * AvgDen) \div MaxSubjects

\* total_marks / len(assessments)
PyDiv(total, n) == IF total = NaN THEN NaN ELSE (total * AvgDen) \div n

\* sum(a.total_score or 0 for a in assessments)
RECURSIVE SumTotals(_)
SumTotals(rows) ==
    IF rows = {} THEN 0
    ELSE LET a == CHOOSE r \in rows : TRUE
         IN  PyAdd(OrZero(a.total_score), SumTotals(rows \ {a}))

NewReportPublished(id, student_id, term_id, class_enrollment_id) ==
    [id |-> id, student_id |-> student_id, term_id |-> term_id,
     class_enrollment_id |-> class_enrollment_id,
     total_marks |-> Null, average_score |-> Null, class_position |-> Null,
     class_size |-> Null, total_days |-> Null, days_present |-> Null,
     days_absent |-> Null, class_teacher_remarks |-> NullStr,
     headteacher_remarks |-> NullStr, is_published |-> TRUE, published_at |-> Null]

NewReport(id, student_id, term_id, class_enrollment_id) ==
    [id |-> id, student_id |-> student_id, term_id |-> term_id,
     class_enrollment_id |-> class_enrollment_id,
     total_marks |-> Null, average_score |-> Null, class_position |-> Null,
     class_size |-> Null, total_days |-> Null, days_present |-> Null,
     days_absent |-> Null, class_teacher_remarks |-> NullStr,
     headteacher_remarks |-> NullStr, is_published |-> FALSE, published_at |-> Null]

\* Assessment.query.join(ClassSubject).filter(student, term, class)
StudentAssessments(rows, student_id, term_id, class_id) ==
    {a \in rows :
        /\ a.student_id = student_id
        /\ a.term_id = term_id
        /\ \E cs \in class_subjects :
              cs.id = a.class_subject_id /\ cs.class_id = class_id}

\* Attendance.query.filter(student, class, date within the term so far)
AttendanceRecords(student_id, class_id, term_id) ==
    LET term == CHOOSE tm \in TermTable \cup OtherTermTable : tm.id = term_id
        last == IF term.end_date < Today THEN term.end_date ELSE Today
    IN  {r \in AttendanceTable :
            /\ r.student_id = student_id
            /\ r.class_id = class_id
            /\ r.date >= term.start_date
            /\ r.date <= last}

AlwaysNewReport(reports, enrollment, term_id) ==
    LET found == {r \in reports :
                     r.student_id = enrollment.student_id /\ r.term_id = term_id}
    IN  NewReport(IF found = {} THEN NextId(Ids(reports))
                  ELSE (CHOOSE r \in found : TRUE).id,
                  enrollment.student_id, term_id, enrollment.id)

\* "Get or create report"
FoundOrNewReport(reports, enrollment, term_id) ==
    LET found == {r \in reports :
                     r.student_id = enrollment.student_id /\ r.term_id = term_id}
    IN  IF found = {}
        THEN NewReport(NextId(Ids(reports)), enrollment.student_id,
                       term_id, enrollment.id)
        ELSE CHOOSE r \in found : TRUE

\* one pass of the loop over the enrollments: the report found or created,
\* with its aggregates and attendance set
ReportFor(reports, rows, enrollment, class_id, term_id, class_size) ==
    LET report == FoundOrNewReport(reports, enrollment, term_id)
        asmts == StudentAssessments(rows, enrollment.student_id, term_id, class_id)
        total == SumTotals(asmts)
        agg == IF asmts = {} THEN report
               ELSE [report EXCEPT !.total_marks = total,
                                   !.average_score = PyDiv(total, Cardinality(asmts)),
                                   !.class_size = class_size]
        att == AttendanceRecords(enrollment.student_id, class_id, term_id)
    IN  [agg EXCEPT
            !.total_days = Cardinality(att),
            !.days_present = Cardinality({r \in att : r.status \in {"present", "late"}}),
            !.days_absent = Cardinality({r \in att : r.status = "absent"})]

\* the loop over the enrollments in the order the query returned them
RECURSIVE ReportLoop(_, _, _, _, _, _)
ReportLoop(reports, rows, order, k, class_id, term_id) ==
    IF k > Len(order) THEN reports
    ELSE LET r == ReportFor(reports, rows, order[k], class_id, term_id, Len(order))
         IN  ReportLoop({x \in reports : x.id # r.id} \cup {r}, rows, order, k + 1,
                        class_id, term_id)

\* the orders in which a query without ORDER BY may return rows
AnyOrder(rows) ==
    LET n == Cardinality(rows)
    IN  {q \in [1..n -> rows] : \A i, j \in 1..n : i # j => q[i] # q[j]}

ClassReportsAnyTerm(reports, class_id, term_id) ==
    {r \in reports :
        \E e \in class_enrollments :
           e.id = r.class_enrollment_id /\ e.class_id = class_id}

\* TerminalReport.query.join(ClassEnrollment).filter(class, term)
ClassReports(reports, class_id, term_id) ==
    {r \in reports :
        /\ r.term_id = term_id
        /\ \E e \in class_enrollments :
              e.id = r.class_enrollment_id /\ e.class_id = class_id}

\* the orders in which ORDER BY average_score DESC may return the reports
ReportOrderings(reports) ==
    {q \in AnyOrder(reports) :
        \A i \in 1..Len(q) - 1 : DbDescGe(q[i].average_score, q[i + 1].average_score)}

\* calculate_terminal_positions on the reports in query order q
calculate_terminal_positions(reports, q) ==
    LET pos == RankLoop([i \in 1..Len(q) |-> q[i].average_score])
        ranked == {[q[i] EXCEPT !.class_position = pos[i]] : i \in 1..Len(q)}
    IN  {r \in reports : r.id \notin Ids(ranked)} \cup ranked

Flash(op, user, status, class_id, flash, generated_count) ==
    [NoResponse EXCEPT !.op = op, !.user = user, !.status = status,
                       !.class_id = class_id, !.flash = flash,
                       !.generated_count = generated_count]

\* POST /assessments/reports/generate/<class_id> by user
GenerateReports(user, class_id) ==
    /\ served' = served + 1
    /\ UNCHANGED <<assessments, class_subjects, students, class_enrollments, fee_invoices, payments, current_term, sessions, probe>>
    /\ IF UserGet(user).role \notin TeacherRoles
       THEN /\ response' = Flash("generate_reports", user, 302, class_id,
                                 "Teacher access required.", 0)
            /\ UNCHANGED terminal_reports
       ELSE IF ClassNotFound(class_id)
       THEN /\ response' = Flash("generate_reports", user, 404, class_id, "", 0)
            /\ UNCHANGED terminal_reports
       ELSE IF ReportAccessDenied(user, class_id)
       THEN /\ response' = Flash("generate_reports", user, 302, class_id,
                                 "You can only generate reports for your own class.", 0)
            /\ UNCHANGED terminal_reports
       ELSE IF g_current_term(user) = 0
       THEN /\ response' = Flash("generate_reports", user, 302, class_id,
                                 "No active term.", 0)
            /\ UNCHANGED terminal_reports
       ELSE LET enrollments == {e \in class_enrollments :
                                   /\ e.class_id = class_id
                                   /\ e.academic_year_id = CurrentAcademicYear}
            IN  /\ response' = Flash("generate_reports", user, 302, class_id,
                                     "Successfully generated", Cardinality(enrollments))
                /\ \E order \in AnyOrder(enrollments) :
                      LET looped == ReportLoop(terminal_reports, assessments, order, 1,
                                               class_id, g_current_term(user))
                      IN  \E q \in ReportOrderings(
                                      ClassReports(looped, class_id, g_current_term(user))) :
                             terminal_reports' = calculate_terminal_positions(looped, q)

\* the scores entered before reports are generated
ReportBatches ==
    Singles({Entry(st, p) : st \in Students \ {1}, p \in {Exam50, Exam40}})

InitReports ==
    /\ assessments = {}
    /\ terminal_reports = {}
    /\ class_subjects = ClassSubjectTable
    /\ students = AllStudents
    /\ class_enrollments = ClassEnrollmentTable
    /\ fee_invoices = {}
    /\ payments = {}
    /\ current_term \in {0, 1}
    /\ response = NoResponse
    /\ sessions = << >>
    /\ served = 0
    /\ probe = << >>

NextReports ==
    \/ /\ served < MaxReportRequests
       /\ \E class_subject_id \in {1, 2} :
            \E scores \in ReportBatches :
               /\ SaveScores(2, [class_subject_id |-> class_subject_id, scores |-> scores])
               /\ UNCHANGED probe
    \/ /\ served < MaxReportRequests
       /\ \E user \in {1, 2, 3, 4} :
            \E class_id \in {1, 2, 9} : GenerateReports(user, class_id)

SpecReports == InitReports /\ [][NextReports]_vars

-----------------------------------------------------------------------------
(* Publishing: publish_reports, with reports of two classes and two terms. *)
(* probe keeps the response that preceded the last publish_reports.        *)

MaxPublishRequests == 4

\* datetime.utcnow(), counted in writing requests
UtcNow == served + 1

NothingToPublishNever(reports) == FALSE

\* "if not reports"
NothingToPublish(reports) == reports = {}

\* POST /assessments/reports/publish/<class_id> by user
PublishReports(user, class_id) ==
    /\ served' = served + 1
    /\ UNCHANGED <<assessments, class_subjects, students, class_enrollments, fee_invoices, payments, current_term, sessions>>
    /\ IF UserGet(user).role \notin TeacherRoles
       THEN /\ response' = Flash("publish_reports", user, 302, class_id,
                                 "Teacher access required.", 0)
            /\ UNCHANGED terminal_reports
       ELSE IF g_current_term(user) = 0
       THEN /\ response' = Flash("publish_reports", user, 302, class_id,
                                 "No active term.", 0)
            /\ UNCHANGED terminal_reports
       ELSE IF ClassNotFound(class_id)
       THEN /\ response' = Flash("publish_reports", user, 404, class_id, "", 0)
            /\ UNCHANGED terminal_reports
       ELSE IF ReportAccessDenied(user, class_id)
       THEN /\ response' = Flash("publish_reports", user, 302, class_id,
                                 "You can only publish reports for your own class.", 0)
            /\ UNCHANGED terminal_reports
       ELSE LET reports == ClassReports(terminal_reports, class_id, g_current_term(user))
            IN  IF NothingToPublish(reports)
                THEN /\ response' = Flash("publish_reports", user, 302, class_id,
                                          "No reports found to publish.", 0)
                     /\ UNCHANGED terminal_reports
                ELSE /\ response' = Flash("publish_reports", user, 302, class_id,
                                          "Successfully published", Cardinality(reports))
                     /\ terminal_reports' =
                           (terminal_reports \ reports) \cup
                           {[r EXCEPT !.is_published = TRUE, !.published_at = UtcNow] :
                               r \in reports}

InitPublish ==
    /\ assessments = {}
    /\ terminal_reports = {}
    /\ class_subjects = ClassSubjectTable
    /\ students = AllStudents
    /\ class_enrollments = ClassEnrollmentTable
    /\ fee_invoices = {}
    /\ payments = {}
    /\ current_term \in TermIds
    /\ response = NoResponse
    /\ sessions = << >>
    /\ served = 0
    /\ probe = << >>

NextPublish ==
    \/ /\ served < MaxPublishRequests
       /\ \E class_id \in {1, 2} : GenerateReports(1, class_id)
    \/ /\ served < MaxPublishRequests
       /\ \E req \in {<<1, 1>>, <<1, 2>>, <<3, 1>>, <<3, 2>>, <<4, 1>>, <<1, 9>>} :
            PublishReports(req[1], req[2]) /\ probe' = response
    \/ /\ served < MaxPublishRequests
       /\ \E t \in {0} \cup TermIds : SetCurrentTerm(t)

SpecPublish == InitPublish /\ [][NextPublish]_vars

-----------------------------------------------------------------------------
(* The read path: the terminal_report view and the parent portal's         *)
(* child_results list. response.shown holds the ids of the reports shown.  *)

MaxParentRequests == 2

Shown(op, user, status, flash, shown) ==
    [NoResponse EXCEPT !.op = op, !.user = user, !.status = status,
                       !.flash = flash, !.shown = shown]

\* "not current_user.parent_profile or student.parent_id != parent_profile.id"
NotOwnChild(user, student_id) ==
    \/ UserGet(user).parent_id = Null
    \/ StudentParent(student_id) # UserGet(user).parent_id

HiddenFromParentNever(user, report) == FALSE

\* "current_user.role == UserRole.PARENT and not report.is_published"
HiddenFromParent(user, report) ==
    UserGet(user).role = "parent" /\ ~report.is_published

\* GET /reports/terminal/<student_id>/<term_id> by user
ViewTerminalReport(user, student_id, term_id) ==
    /\ UNCHANGED <<assessments, terminal_reports, class_subjects, students, class_enrollments, fee_invoices, payments, current_term,
                   sessions, served, probe>>
    /\ LET found == {r \in terminal_reports :
                        r.student_id = student_id /\ r.term_id = term_id}
       IN  IF student_id \notin students
           THEN response' = Shown("terminal_report", user, 404, "", {})
           ELSE IF UserGet(user).role = "parent" /\ NotOwnChild(user, student_id)
           THEN response' = Shown("terminal_report", user, 302, "Access denied.", {})
           ELSE IF /\ UserGet(user).role # "parent"
                   /\ StudentSchool(student_id) # UserGet(user).school_id
           THEN response' = Shown("terminal_report", user, 302, "Access denied.", {})
           ELSE IF found = {}
           THEN response' = Shown("terminal_report", user, 404, "", {})
           ELSE \E report \in found :
                   response' =
                      IF HiddenFromParent(user, report)
                      THEN Shown("terminal_report", user, 302,
                                 "Report not yet published.", {})
                      ELSE Shown("terminal_report", user, 200, "", {report.id})

\* GET /parent/child/<id>/results by user
ChildResults(user, id) ==
    /\ UNCHANGED <<assessments, terminal_reports, class_subjects, students, class_enrollments, fee_invoices, payments, current_term,
                   sessions, served, probe>>
    /\ IF UserGet(user).role # "parent"
       THEN response' = Shown("child_results", user, 302, "Parent access required.", {})
       ELSE IF id \notin students
       THEN response' = Shown("child_results", user, 404, "", {})
       ELSE IF NotOwnChild(user, id)
       THEN response' = Shown("child_results", user, 302, "Access denied.", {})
       ELSE response' =
               Shown("child_results", user, 200, "",
                     Ids({r \in terminal_reports :
                             r.student_id = id /\ r.is_published}))

InitParent ==
    /\ assessments = {}
    /\ terminal_reports = {}
    /\ class_subjects = ClassSubjectTable
    /\ students = AllStudents
    /\ class_enrollments = ClassEnrollmentTable
    /\ fee_invoices = {}
    /\ payments = {}
    /\ current_term = 1
    /\ response = NoResponse
    /\ sessions = << >>
    /\ served = 0
    /\ probe = << >>

NextParent ==
    \/ /\ served < MaxParentRequests
       /\ GenerateReports(1, 1)
    \/ /\ served < MaxParentRequests
       /\ PublishReports(1, 1)
       /\ UNCHANGED probe
    \/ \E user \in {1, 4, 5, 6} :
          \E student_id \in {1, 2, GhostStudent} :
             \E term_id \in TermIds : ViewTerminalReport(user, student_id, term_id)
    \/ \E user \in {1, 4, 5} :
          \E id \in {1, 2, GhostStudent} : ChildResults(user, id)

SpecParent == InitParent /\ [][NextParent]_vars

-----------------------------------------------------------------------------
(* The child's profile page of the parent portal.                          *)

MaxProfileRequests == 3

\* GET /parent/child/<id> by user: recent_assessments, the rows the page
\* is rendered with
ChildProfile(user, id) ==
    /\ UNCHANGED <<assessments, terminal_reports, class_subjects, students,
                   class_enrollments, fee_invoices, payments, current_term,
                   sessions, served, probe>>
    /\ IF UserGet(user).role # "parent"
       THEN response' = Shown("child_profile", user, 302, "Parent access required.", {})
       ELSE IF id \notin students
       THEN response' = Shown("child_profile", user, 404, "", {})
       ELSE IF NotOwnChild(user, id)
       THEN response' = Shown("child_profile", user, 302, "Access denied.", {})
       ELSE response' =
               [Shown("child_profile", user, 200, "", {}) EXCEPT
                   !.recent_assessments =
                       IF g_current_term(user) = 0 THEN {}
                       ELSE {a \in assessments :
                                a.student_id = id /\ a.term_id = g_current_term(user)}]

InitProfile ==
    /\ assessments = {}
    /\ terminal_reports = {}
    /\ class_subjects = ClassSubjectTable
    /\ students = AllStudents
    /\ class_enrollments = ClassEnrollmentTable
    /\ fee_invoices = {}
    /\ payments = {}
    /\ current_term = 1
    /\ response = NoResponse
    /\ sessions = << >>
    /\ served = 0
    /\ probe = << >>

NextProfile ==
    \/ /\ served < MaxProfileRequests
       /\ \E p \in {Exam50, Exam40} :
            /\ SaveScores(1, [class_subject_id |-> 1, scores |-> <<Entry(1, p)>>])
            /\ UNCHANGED probe
    \/ /\ served < MaxProfileRequests
       /\ GenerateReports(1, 1)
    \/ /\ served < MaxProfileRequests
       /\ PublishReports(1, 1)
       /\ UNCHANGED probe
    \/ \E user \in {1, 4, 5} :
          \E id \in {1, 2, GhostStudent} : ChildProfile(user, id)
    \/ \E user \in {4} : \E id \in {1} : ChildResults(user, id)

SpecProfile == InitProfile /\ [][NextProfile]_vars

-----------------------------------------------------------------------------
(* Reports generated again after the class's subjects were assigned anew,  *)
(* and generated twice in a row.                                           *)

MaxRegenRequests == 4

\* "Create new assignments": one ClassSubject per listed subject, with the
\* teacher listed for it; used holds the ids the sequence has given out
RECURSIVE AddSubjects(_, _, _, _, _)
AddSubjects(rows, used, class_id, teachers, k) ==
    IF k > Len(teachers) THEN rows
    ELSE LET cs == [id |-> NextId(used), class_id |-> class_id,
                    teacher_id |-> teachers[k]]
         IN  AddSubjects(rows \cup {cs}, used \cup {cs.id}, class_id, teachers, k + 1)

\* POST /classes/<id>/assign-subjects by user, listing one subject per
\* entry of teachers. The ClassSubject rows of the class are deleted, and
\* with them (ON DELETE CASCADE) the assessments that reference them.
AssignSubjects(user, id, teachers) ==
    /\ served' = served + 1
    /\ UNCHANGED <<terminal_reports, students, class_enrollments, fee_invoices, payments, current_term, sessions, probe>>
    /\ IF UserGet(user).role \notin AdminRoles
       THEN /\ response' = Flash("assign_subjects", user, 302, id,
                                 "Administrator access required.", 0)
            /\ UNCHANGED <<assessments, class_subjects>>
       ELSE IF ClassNotFound(id)
       THEN /\ response' = Flash("assign_subjects", user, 404, id, "", 0)
            /\ UNCHANGED <<assessments, class_subjects>>
       ELSE LET removed == {cs \in class_subjects : cs.class_id = id}
            IN  /\ response' = Flash("assign_subjects", user, 302, id,
                                     "Subjects assigned successfully!", 0)
                /\ class_subjects' = AddSubjects(class_subjects \ removed,
                                                 Ids(class_subjects), id, teachers, 1)
                /\ assessments' = {a \in assessments :
                                      a.class_subject_id \notin Ids(removed)}

RegenBatches ==
    Singles({Entry(st, p) : st \in Students \ {1}, p \in {Exam50, NanWork}})

InitRegen ==
    /\ assessments = {}
    /\ terminal_reports = {}
    /\ class_subjects = ClassSubjectTable
    /\ students = AllStudents
    /\ class_enrollments = ClassEnrollmentTable
    /\ fee_invoices = {}
    /\ payments = {}
    /\ current_term = 1
    /\ response = NoResponse
    /\ sessions = << >>
    /\ served = 0
    /\ probe = << >>

NextRegen ==
    \/ /\ served < MaxRegenRequests
       /\ \E class_subject_id \in
             {1} \cup {cs.id : cs \in {c \in class_subjects :
                                          c.class_id = 1 /\ c.teacher_id = 1}} :
            \E scores \in RegenBatches :
               /\ SaveScores(1, [class_subject_id |-> class_subject_id, scores |-> scores])
               /\ UNCHANGED probe
    \/ /\ served < MaxRegenRequests
       /\ GenerateReports(1, 1)
    \/ /\ served < MaxRegenRequests
       /\ \E user \in {1, 2} :
            \E id \in {1, 9} :
               \E teachers \in {<<1>>, <<Null, 2>>} : AssignSubjects(user, id, teachers)

SpecRegen == InitRegen /\ [][NextRegen]_vars

-----------------------------------------------------------------------------
(* Rows deleted under the foreign keys of the schema: a student, and the   *)
(* class_subjects of a class (assign_subjects). probe keeps the tables as  *)
(* they were before the last deletion of a student.                        *)

MaxCascadeRequests == 4

OnDeleteNoAction(rows, student_id) == rows

\* ForeignKey('students.id', ondelete='CASCADE'): the rows left after the
\* student's row is deleted
OnDeleteCascade(rows, student_id) == {r \in rows : r.student_id # student_id}

\* DELETE FROM students WHERE id = student_id
DeleteStudent(student_id) ==
    /\ student_id \in students
    /\ served' = served + 1
    /\ students' = students \ {student_id}
    /\ class_enrollments' = OnDeleteCascade(class_enrollments, student_id)
    /\ assessments' = OnDeleteCascade(assessments, student_id)
    /\ terminal_reports' = OnDeleteCascade(terminal_reports, student_id)
    /\ fee_invoices' = OnDeleteCascade(fee_invoices, student_id)
    /\ payments' = {p \in payments :
                       \E inv \in fee_invoices :
                          inv.id = p.invoice_id /\ inv.student_id # student_id}
    /\ response' = [NoResponse EXCEPT !.op = "delete_student"]
    /\ probe' = [student_id |-> student_id, assessments |-> assessments,
                 terminal_reports |-> terminal_reports]
    /\ UNCHANGED <<class_subjects, current_term, sessions>>

CascadeBatches ==
    { <<Entry(1, Exam50)>>, <<Entry(2, Exam40)>>, <<Entry(1, Exam40), Entry(2, Exam50)>> }

InitCascade ==
    /\ assessments = {}
    /\ terminal_reports = {}
    /\ class_subjects = ClassSubjectTable
    /\ students = AllStudents
    /\ class_enrollments = ClassEnrollmentTable
    /\ fee_invoices = {}
    /\ payments = {}
    /\ current_term = 1
    /\ response = NoResponse
    /\ sessions = << >>
    /\ served = 0
    /\ probe = [student_id |-> 0, assessments |-> {}, terminal_reports |-> {}]

NextCascade ==
    \/ /\ served < MaxCascadeRequests
       /\ \E class_subject_id \in {1, 2} :
            \E scores \in CascadeBatches :
               /\ SaveScores(1, [class_subject_id |-> class_subject_id, scores |-> scores])
               /\ UNCHANGED probe
    \/ /\ served < MaxCascadeRequests
       /\ GenerateReports(1, 1)
    \/ /\ served < MaxCascadeRequests
       /\ AssignSubjects(1, 1, <<1>>)
    \/ /\ served < MaxCascadeRequests
       /\ \E student_id \in {1, 2} : DeleteStudent(student_id)

SpecCascade == InitCascade /\ [][NextCascade]_vars

-----------------------------------------------------------------------------
(* Reports generated again after they were published, after remarks were   *)
(* written on them and after a student joined the class.                   *)

MaxRepublishRequests == 6

\* POST /students/<id>/enroll by user with form field class_id
Enroll(user, id, class_id) ==
    /\ served' = served + 1
    /\ UNCHANGED <<assessments, terminal_reports, class_subjects, students,
                   fee_invoices, payments, current_term, sessions, probe>>
    /\ IF UserGet(user).role \notin AdminRoles
       THEN /\ response' = Flash("enroll", user, 302, class_id,
                                 "Administrator access required.", 0)
            /\ UNCHANGED class_enrollments
       ELSE IF id \notin students
       THEN /\ response' = Flash("enroll", user, 404, class_id, "", 0)
            /\ UNCHANGED class_enrollments
       ELSE IF class_id \in {0, Null}
       THEN /\ response' = Flash("enroll", user, 302, class_id,
                                 "Invalid enrollment request.", 0)
            /\ UNCHANGED class_enrollments
       ELSE IF ClassNotFound(class_id)
       THEN \* the commit violates the foreign key to classes
            /\ response' = Flash("enroll", user, 500, class_id, "", 0)
            /\ UNCHANGED class_enrollments
       ELSE LET existing == {e \in class_enrollments :
                                /\ e.student_id = id
                                /\ e.academic_year_id = CurrentAcademicYear}
            IN  IF existing # {}
                THEN /\ response' = Flash("enroll", user, 302, class_id,
                                          "Class enrollment updated.", 0)
                     /\ class_enrollments' =
                           {IF e \in existing THEN [e EXCEPT !.class_id = class_id] ELSE e
                              : e \in class_enrollments}
                ELSE /\ response' = Flash("enroll", user, 302, class_id,
                                          "Student enrolled in class.", 0)
                     /\ class_enrollments' = class_enrollments \cup
                           {[id |-> NextId(Ids(class_enrollments) \cup AllStudents),
                             student_id |-> id, class_id |-> class_id,
                             academic_year_id |-> CurrentAcademicYear]}

\* the remarks of the class teacher and the head written on a report
EditRemarks(report_id) ==
    /\ served' = served + 1
    /\ \E r \in terminal_reports :
          /\ r.id = report_id
          /\ r.class_teacher_remarks = NullStr
          /\ terminal_reports' = (terminal_reports \ {r}) \cup
                {[r EXCEPT !.class_teacher_remarks = "Good",
                           !.headteacher_remarks = "Promoted"]}
    /\ response' = [NoResponse EXCEPT !.op = "edit_remarks"]
    /\ UNCHANGED <<assessments, class_subjects, students, class_enrollments,
                   fee_invoices, payments, current_term, sessions, probe>>

InitRepublish ==
    /\ assessments = {}
    /\ terminal_reports = {}
    /\ class_subjects = ClassSubjectTable
    /\ students = AllStudents
    /\ class_enrollments = {e \in ClassEnrollmentTable : e.student_id # 2}
    /\ fee_invoices = {}
    /\ payments = {}
    /\ current_term = 1
    /\ response = NoResponse
    /\ sessions = << >>
    /\ served = 0
    /\ probe = << >>

NextRepublish ==
    \/ /\ served < MaxRepublishRequests
       /\ \E p \in {Exam50, Exam40} :
            /\ SaveScores(1, [class_subject_id |-> 1, scores |-> <<Entry(1, p)>>])
            /\ UNCHANGED probe
    \/ /\ served < MaxRepublishRequests
       /\ GenerateReports(1, 1)
    \/ /\ served < MaxRepublishRequests
       /\ PublishReports(1, 1)
       /\ UNCHANGED probe
    \/ /\ served < MaxRepublishRequests
       /\ \E user \in {1, 2} : \E class_id \in {0, 1, 9} : Enroll(user, 2, class_id)
    \/ /\ served < MaxRepublishRequests
       /\ EditRemarks(1)

SpecRepublish == InitRepublish /\ [][NextRepublish]_vars

-----------------------------------------------------------------------------
(* Reports generated and published by users of every kind.                 *)

MaxAuthRequests == 3

InitAuth ==
    /\ assessments = {}
    /\ terminal_reports = {}
    /\ class_subjects = ClassSubjectTable
    /\ students = AllStudents
    /\ class_enrollments = ClassEnrollmentTable
    /\ fee_invoices = {}
    /\ payments = {}
    /\ current_term = 1
    /\ response = NoResponse
    /\ sessions = << >>
    /\ served = 0
    /\ probe = << >>

NextAuth ==
    \/ /\ served < MaxAuthRequests
       /\ \E user \in {1, 2, 3, 4, 7, 8} :
            \E class_id \in {1, 2} : GenerateReports(user, class_id)
    \/ /\ served < MaxAuthRequests
       /\ \E user \in {1, 2, 3, 4, 7, 8} :
            \E class_id \in {1, 2} :
               PublishReports(user, class_id) /\ UNCHANGED probe

SpecAuth == InitAuth /\ [][NextAuth]_vars

-----------------------------------------------------------------------------
(* Requests of an admin of school 1 and of an admin of school 2 on the     *)
(* class, the class_subject and the students of school 1.                  *)

MaxTenantRequests == 3

InitTenant ==
    /\ assessments = {}
    /\ terminal_reports = {}
    /\ class_subjects = ClassSubjectTable
    /\ students = AllStudents
    /\ class_enrollments = ClassEnrollmentTable
    /\ fee_invoices = {}
    /\ payments = {}
    /\ current_term = 1
    /\ response = NoResponse
    /\ sessions = << >>
    /\ served = 0
    /\ probe = << >>

NextTenant ==
    \/ /\ served < MaxTenantRequests
       /\ \E user \in {1, 6} :
            \E p \in {Exam50, Exam40} :
               /\ SaveScores(user, [class_subject_id |-> 1, scores |-> <<Entry(1, p)>>])
               /\ UNCHANGED probe
    \/ /\ served < MaxTenantRequests
       /\ \E user \in {1, 6} : GenerateReports(user, 1)
    \/ /\ served < MaxTenantRequests
       /\ \E user \in {1, 6} : PublishReports(user, 1) /\ UNCHANGED probe

SpecTenant == InitTenant /\ [][NextTenant]_vars

-----------------------------------------------------------------------------
(* Scores saved for two class_subjects over two terms, with reports        *)
(* generated in between; probe keeps the body of the last save_scores.     *)

MaxFrameRequests == 4

FrameBatches ==
    { <<Entry(1, Exam50)>>, <<Entry(2, Exam40)>>,
      <<Entry(1, Exam40), Entry(2, BadText)>> }

InitFrame ==
    /\ assessments = {}
    /\ terminal_reports = {}
    /\ class_subjects = ClassSubjectTable
    /\ students = AllStudents
    /\ class_enrollments = ClassEnrollmentTable
    /\ fee_invoices = {}
    /\ payments = {}
    /\ current_term = 1
    /\ response = NoResponse
    /\ sessions = << >>
    /\ served = 0
    /\ probe = [class_subject_id |-> 1, scores |-> << >>]

NextFrame ==
    \/ /\ served < MaxFrameRequests
       /\ \E class_subject_id \in {1, 2} :
            \E scores \in FrameBatches :
               LET data == [class_subject_id |-> class_subject_id, scores |-> scores]
               IN  SaveScores(1, data) /\ probe' = data
    \/ /\ served < MaxFrameRequests
       /\ GenerateReports(1, 1)
    \/ /\ served < MaxFrameRequests
       /\ \E t \in TermIds : SetCurrentTerm(t)

SpecFrame == InitFrame /\ [][NextFrame]_vars

-----------------------------------------------------------------------------
(* Payments: record_payment requests of two workers on one invoice, a step *)
(* per query. sessions[r].inv is the FeeInvoice the request loaded; probe  *)
(* keeps the form of the last request begun. Amounts are in pesewas.       *)

MaxPayRequests == 3

\* accounts_required lets these roles through
AccountsRoles == {"super_admin", "headteacher", "admin", "accounts_officer"}

\* the invoice of student 1: total 3, discount 1, nothing paid
FeeInvoiceTable ==
    { [id |-> 1, student_id |-> 1, term_id |-> 1, total_amount |-> 3,
       discount_amount |-> 1, amount_paid |-> 0, balance |-> 2, status |-> "pending"] }

\* FeeInvoice.update_balance
update_balance(inv) ==
    LET balance == inv.total_amount - inv.discount_amount - inv.amount_paid
    IN  IF balance <= 0
        THEN [inv EXCEPT !.balance = 0, !.status = "completed"]
        ELSE IF inv.amount_paid > 0
        THEN [inv EXCEPT !.balance = balance, !.status = "partial"]
        ELSE [inv EXCEPT !.balance = balance]

IdlePayment ==
    [pc |-> "idle", user |-> 0, inv |-> Null, amt |-> 0, count |-> 0]

\* record_payment up to the count: the decorator, FeeInvoice.query.get_or_404,
\* the school check and the amount check
PayBegin(r, user, inv_id, amt) ==
    /\ sessions[r].pc \in {"idle", "done"}
    /\ served' = served + 1
    /\ probe' = [invoice_id |-> inv_id, amount |-> amt]
    /\ UNCHANGED <<assessments, terminal_reports, class_subjects, students,
                   class_enrollments, fee_invoices, payments, current_term>>
    /\ LET found == {i \in fee_invoices : i.id = inv_id}
           Answer(status, flash) ==
               /\ response' = Flash("record_payment", user, status, inv_id, flash, 0)
               /\ sessions' = [sessions EXCEPT ![r] = [IdlePayment EXCEPT !.pc = "done"]]
       IN  IF UserGet(user).role \notin AccountsRoles
           THEN Answer(302, "Accounts access required.")
           ELSE IF found = {}
           THEN Answer(404, "")
           ELSE LET inv == CHOOSE i \in found : TRUE
                IN  IF StudentSchool(inv.student_id) # UserGet(user).school_id
                    THEN Answer(302, "Access denied.")
                    ELSE IF amt <= 0 \/ amt > inv.balance
                    THEN Answer(302, "Invalid amount.")
                    ELSE /\ response' = response
                         /\ sessions' = [sessions EXCEPT ![r] =
                               [pc |-> "count", user |-> user, inv |-> inv,
                                amt |-> amt, count |-> 0]]

\* count = Payment.query.count(): the committed payments
PayCount(r) ==
    /\ sessions[r].pc = "count"
    /\ sessions' = [sessions EXCEPT ![r] =
          [@ EXCEPT !.pc = "commit", !.count = Cardinality(payments)]]
    /\ UNCHANGED <<assessments, terminal_reports, class_subjects, students,
                   class_enrollments, fee_invoices, payments, current_term,
                   response, served, probe>>

\* db.session.add(pay); inv.amount_paid += amt; inv.update_balance();
\* db.session.commit(): the INSERT of the payment and the UPDATE of the
\* invoice with the values computed from the loaded row
PayCommit(r) ==
    LET s == sessions[r]
        receipt_number == s.count + 1
    IN  /\ s.pc = "commit"
        /\ sessions' = [sessions EXCEPT ![r] = [IdlePayment EXCEPT !.pc = "done"]]
        /\ UNCHANGED <<assessments, terminal_reports, class_subjects, students,
                       class_enrollments, current_term, served, probe>>
        /\ IF \E p \in payments : p.receipt_number = receipt_number
           THEN \* receipt_number is unique: IntegrityError, rollback, 500
                /\ response' = Flash("record_payment", s.user, 500, s.inv.id, "", 0)
                /\ UNCHANGED <<fee_invoices, payments>>
           ELSE /\ response' = Flash("record_payment", s.user, 302, s.inv.id,
                                     "Payment recorded!", 0)
                /\ payments' = payments \cup
                      {[id |-> NextId(Ids(payments)), receipt_number |-> receipt_number,
                        invoice_id |-> s.inv.id, amount |-> s.amt,
                        status |-> "completed", received_by_id |-> s.user]}
                /\ fee_invoices' =
                      LET paid == update_balance(
                                     [s.inv EXCEPT !.amount_paid = s.inv.amount_paid + s.amt])
                      IN  {IF i.id = s.inv.id
                           THEN [i EXCEPT !.amount_paid = paid.amount_paid,
                                          !.balance = paid.balance,
                                          !.status = paid.status]
                           ELSE i : i \in fee_invoices}

InitPay ==
    /\ assessments = {}
    /\ terminal_reports = {}
    /\ class_subjects = ClassSubjectTable
    /\ students = AllStudents
    /\ class_enrollments = ClassEnrollmentTable
    /\ fee_invoices = FeeInvoiceTable
    /\ payments = {}
    /\ current_term = 1
    /\ response = NoResponse
    /\ sessions = [r \in Workers |-> IdlePayment]
    /\ served = 0
    /\ probe = [invoice_id |-> 0, amount |-> 0]

NextPay ==
    \/ /\ served < MaxPayRequests
       /\ \E r \in Workers :
            \E user \in {2, 6, 8} :
               \E inv_id \in {1, 9} :
                  \E amt \in 0..3 : PayBegin(r, user, inv_id, amt)
    \/ \E r \in Workers : PayCount(r)
    \/ \E r \in Workers : PayCommit(r)

SpecPay == InitPay /\ [][NextPay]_vars

-----------------------------------------------------------------------------
(* The properties checked.                                                 *)

\* a JSON value the specification gives a stored value for: missing, empty,
\* or a number
Covered(raw) ==
    \/ raw.kind \in {"absent", "null", "str_empty"}
    \/ raw.kind \in {"num", "str_num"} /\ raw.v # NaN

\* the value the specification gives: 0 when missing or empty or below 0,
\* the maximum when above it, the input otherwise
ClaimedStored(raw, hi) ==
    IF raw.kind \in {"absent", "null", "str_empty"} THEN 0
    ELSE IF raw.v < 0 THEN 0
    ELSE IF raw.v > hi * Scale THEN hi * Scale
    ELSE raw.v

InRange(x, hi) == x # NaN /\ x # Null /\ 0 <= x /\ x <= hi * Scale

\* competition rank of row a among rows: 1 + the rows with a strictly
\* greater total
CompetitionRank(a, rows) ==
    1 + Cardinality({b \in rows : PyGt(b.total_score, a.total_score)})

\* C1: every stored Assessment has each component within [0, max] (30, 10,
\* 10, 50) and total_score equal to the sum of its four components.
C1_ComponentsInRangeTotalIsSum ==
    \A a \in assessments :
        /\ InRange(a.classwork_score, ClassworkMax)
        /\ InRange(a.homework_score, HomeworkMax)
        /\ InRange(a.project_score, ProjectMax)
        /\ InRange(a.exam_score, ExamMax)
        /\ InRange(a.total_score, 100)
        /\ a.total_score = a.classwork_score + a.homework_score
                             + a.project_score + a.exam_score

\* C2: after a successful save_scores every assessment of the
\* (class_subject, current term) cohort has class_position = 1 + the number
\* of assessments of the cohort with a strictly greater total_score.
C2_CohortPositionsAfterSave ==
    (response.op = "save_scores" /\ response.status = 200) =>
        LET cohort == Cohort(assessments, response.class_subject_id, current_term)
        IN  \A a \in cohort : a.class_position = CompetitionRank(a, cohort)

\* C3: on a list sorted by score descending the rank loop gives the first
\* entry position 1, an entry equal to its predecessor the predecessor's
\* position, any other entry its 1-based index; and so each entry
\* 1 + the number of entries with a strictly higher score.
C3_RankLoopIsCompetitionRanking ==
    probe.state = "ranked" =>
        LET s == probe.scores
            p == probe.positions
            n == Len(s)
        IN  /\ Len(p) = n
            /\ \A k \in 1..n :
                  /\ k = 1 => p[k] = 1
                  /\ (k > 1 /\ s[k] = s[k - 1]) => p[k] = p[k - 1]
                  /\ (k > 1 /\ s[k] # s[k - 1]) => p[k] = k
                  /\ p[k] = 1 + Cardinality({j \in 1..n : s[j] > s[k]})

C3_Witness ==
    /\ probe.state = "ranked"
    /\ probe.scores = <<3, 3, 2>>
    /\ probe.positions = <<1, 1, 3>>

\* C4: for every level and every total in [0, 100] that the four clamped
\* components can sum to, exactly one interval of the scale holds the
\* total, and the stored grade is not None.
C4_EveryTotalHasAGrade ==
    (probe.state = "stored" /\ InRange(probe.row.total_score, 100)) =>
        LET scale == NACCA_GRADING_SCALE(probe.level)
        IN  /\ Cardinality({i \in 1..Len(scale) :
                    /\ scale[i][1] * Scale <= probe.row.total_score
                    /\ probe.row.total_score <= scale[i][2] * Scale}) = 1
            /\ probe.row.grade # NullStr

\* C5: when the two concurrent save_scores requests, entering different
\* students of one cohort, have both committed, every assessment of the
\* cohort has the competition rank computed over all committed scores.
C5_ConcurrentSavesRankTheUnion ==
    (\A r \in Workers : sessions[r].pc = "done") =>
        LET cohort == Cohort(assessments, 1, current_term)
        IN  \A a \in cohort : a.class_position = CompetitionRank(a, cohort)

LastIndexOf(scores, student_id) ==
    CHOOSE i \in 1..Len(scores) :
        /\ scores[i].student_id = student_id
        /\ \A j \in 1..Len(scores) : scores[j].student_id = student_id => j <= i

ValidEntry(e) ==
    /\ e.student_id \in Students
    /\ Covered(e.classwork) /\ Covered(e.homework)
    /\ Covered(e.project) /\ Covered(e.exam)

StoresEntry(r, e) ==
    /\ r.classwork_score = ClaimedStored(e.classwork, ClassworkMax)
    /\ r.homework_score = ClaimedStored(e.homework, HomeworkMax)
    /\ r.project_score = ClaimedStored(e.project, ProjectMax)
    /\ r.exam_score = ClaimedStored(e.exam, ExamMax)

\* C6: there is never more than one Assessment per (student, class_subject,
\* term); a save of valid entries succeeds, and for each student of the
\* batch (also one listed twice) it leaves exactly one row holding the
\* components of the student's last entry: the existing row, overwritten,
\* or one new row stamped with the saving user.
C6_UpsertKeepsOneRowPerKey ==
    [][ /\ \A a, b \in assessments' : SameKey(a, b) => a = b
        /\ (/\ response'.op = "save_scores"
            /\ served' = served + 1
            /\ \A i \in 1..Len(probe'.scores) : ValidEntry(probe'.scores[i]))
           =>
           LET scores == probe'.scores
               batch == {scores[i].student_id : i \in 1..Len(scores)}
               Old(st) == FindAssessment(assessments, st, probe'.class_subject_id,
                                         current_term)
               New(st) == {a \in assessments' :
                              /\ a.student_id = st
                              /\ a.class_subject_id = probe'.class_subject_id
                              /\ a.term_id = current_term}
           IN  /\ response'.status = 200
               /\ Cardinality(assessments') =
                     Cardinality(assessments)
                        + Cardinality({st \in batch : Old(st) = {}})
               /\ \A st \in batch :
                     /\ Cardinality(New(st)) = 1
                     /\ \A r \in New(st) :
                           /\ StoresEntry(r, scores[LastIndexOf(scores, st)])
                           /\ Old(st) = {} =>
                                 /\ r.recorded_by_id = response'.user
                                 /\ r.id \notin Ids(assessments)
                           /\ \A o \in Old(st) :
                                 /\ r.id = o.id
                                 /\ r.recorded_by_id = o.recorded_by_id
      ]_vars

C6_Witness ==
    /\ response.op = "save_scores"
    /\ response.status = 200
    /\ response.user = 1
    /\ probe.scores = <<Entry(1, Exam40), Entry(1, Exam50)>>
    /\ \E a \in assessments :
          /\ a.student_id = 1
          /\ a.recorded_by_id = 2
          /\ a.exam_score = 50 * Scale

\* C7: each stored component is the input when it lies in the component's
\* range, 0 when the input is below 0, missing or empty, and the maximum
\* when it is above; the pass raises only on a string that is no number.
C7_ComponentsAreClamped ==
    /\ probe.state = "stored" =>
          /\ Covered(probe.entry.classwork) =>
                probe.row.classwork_score = ClaimedStored(probe.entry.classwork, 30)
          /\ Covered(probe.entry.homework) =>
                probe.row.homework_score = ClaimedStored(probe.entry.homework, 10)
          /\ Covered(probe.entry.project) =>
                probe.row.project_score = ClaimedStored(probe.entry.project, 10)
          /\ Covered(probe.entry.exam) =>
                probe.row.exam_score = ClaimedStored(probe.entry.exam, 50)
    /\ probe.state = "raised" =>
          \E raw \in {probe.entry.classwork, probe.entry.homework,
                      probe.entry.project, probe.entry.exam} :
              raw.kind = "str_text"

C7_Witness ==
    /\ probe.state = "stored"
    /\ probe.entry.classwork = Num(ClassworkMax * Scale + 1)
    /\ probe.entry.homework = Num(0 - Scale)
    /\ probe.entry.project = Absent
    /\ probe.entry.exam = Num(ExamMax * Scale - 1)
    /\ probe.row.classwork_score = ClassworkMax * Scale
    /\ probe.row.homework_score = 0
    /\ probe.row.project_score = 0
    /\ probe.row.exam_score = ExamMax * Scale - 1

\* C8: a save_scores request that fails in its loop (status 500) leaves the
\* stored assessments, class_position included, as they were before it.
C8_FailedBatchWritesNothing ==
    [][ (/\ response'.op = "save_scores"
         /\ served' = served + 1
         /\ response'.status = 500)
        => assessments' = assessments ]_vars

C8_Witness ==
    /\ response.op = "save_scores"
    /\ response.status = 500
    /\ response.failed_at = 2
    /\ probe.scores = <<Entry(2, Exam50), Entry(1, BadText)>>
    /\ \A a \in assessments : a.student_id # 2

\* C9: save_scores without a current term, or with a class_subject_id that
\* is missing or names no ClassSubject, answers 400 or 404 and leaves the
\* assessments unchanged.
C9_BadRequestWritesNothing ==
    [][ (/\ response'.op = "save_scores"
         /\ served' = served + 1
         /\ UserGet(response'.user).role \in TeacherRoles
         /\ \/ current_term = 0
            \/ response'.class_subject_id \notin {cs.id : cs \in class_subjects})
        => (response'.status \in {400, 404} /\ assessments' = assessments) ]_vars

C9_Witness ==
    /\ current_term = 0
    /\ response.op = "save_scores"
    /\ response.status = 400
    /\ response.class_subject_id = 1
    /\ assessments # {}

\* C10: after generate_reports a report whose average_score is null (a
\* student with no assessments) has no class_position, and each report of
\* the class with an average has position 1 + the number of reports of the
\* class with a strictly greater average.
C10_NullAveragesAreNotRanked ==
    (response.op = "generate_reports" /\ response.flash = "Successfully generated") =>
        LET class == ClassReports(terminal_reports, response.class_id, current_term)
            scored == {r \in class : r.average_score # Null}
        IN  /\ \A r \in class \ scored : r.class_position = Null
            /\ \A r \in scored :
                  r.class_position =
                     1 + Cardinality({o \in scored :
                                         PyGt(o.average_score, r.average_score)})

\* C11: after a successful generate_reports every report of the class and
\* current term with a non-null average_score has class_position = 1 + the
\* number of reports of that cohort with a strictly greater average_score.
C11_ReportPositionsAfterGenerate ==
    (response.op = "generate_reports" /\ response.flash = "Successfully generated") =>
        LET cohort == ClassReports(terminal_reports, response.class_id, current_term)
        IN  \A r \in cohort :
               r.average_score # Null =>
                  r.class_position =
                     1 + Cardinality({o \in cohort :
                                         /\ o.average_score # Null
                                         /\ PyGt(o.average_score, r.average_score)})

\* the sum of the totals of a set of assessments whose totals are numbers
RECURSIVE TotalOf(_)
TotalOf(rows) ==
    IF rows = {} THEN 0
    ELSE LET a == CHOOSE r \in rows : TRUE
         IN  a.total_score + TotalOf(rows \ {a})

\* the current-year enrollments of a class
EnrolledIn(class_id) ==
    {e \in class_enrollments :
        e.class_id = class_id /\ e.academic_year_id = CurrentAcademicYear}

\* C12: after a successful generate_reports each enrolled student with at
\* least one assessment in a class_subject of the class for the current
\* term has one report, with total_marks the sum of those totals,
\* average_score * (their number) = total_marks, and class_size the number
\* of current-year enrollments of the class.
C12_AggregatesAfterGenerate ==
    (response.op = "generate_reports" /\ response.flash = "Successfully generated") =>
        \A e \in EnrolledIn(response.class_id) :
            LET asmts == {a \in assessments :
                             /\ a.student_id = e.student_id
                             /\ a.term_id = current_term
                             /\ \E cs \in class_subjects :
                                   /\ cs.id = a.class_subject_id
                                   /\ cs.class_id = response.class_id}
                mine == {r \in terminal_reports :
                            r.student_id = e.student_id /\ r.term_id = current_term}
            IN  (asmts # {} /\ \A a \in asmts : a.total_score \notin {NaN, Null}) =>
                   /\ Cardinality(mine) = 1
                   /\ \A r \in mine :
                         /\ r.total_marks = TotalOf(asmts)
                         /\ r.average_score * Cardinality(asmts) = r.total_marks * AvgDen
                         /\ r.class_size = Cardinality(EnrolledIn(response.class_id))

C12_Witness ==
    /\ response.op = "generate_reports"
    /\ response.flash = "Successfully generated"
    /\ \E r \in terminal_reports :
          /\ r.total_marks = 90 * Scale
          /\ r.average_score * 2 = 90 * Scale * AvgDen
          /\ r.class_size = NumStudents
          /\ Cardinality({a \in assessments : a.student_id = r.student_id}) = 2

\* C19: a save_scores request changes assessments only when the user is an
\* admin or the teacher assigned to the class_subject.
C19_OnlyTeacherOfRecordWrites ==
    [][ (/\ response'.op = "save_scores"
         /\ served' = served + 1
         /\ assessments' # assessments)
        => LET u == UserGet(response'.user)
           IN  \/ u.role \in AdminRoles
               \/ \E cs \in class_subjects :
                     /\ cs.id = response'.class_subject_id
                     /\ cs.teacher_id # Null
                     /\ cs.teacher_id = u.staff_id ]_vars

\* C13: after a successful generate_reports the report of an enrolled
\* student who has no assessment in the class for the current term has
\* total_marks, average_score and class_size unset, also when an earlier
\* generation had filled them.
C13_NoAssessmentsNoAggregates ==
    (response.op = "generate_reports" /\ response.flash = "Successfully generated") =>
        \A e \in EnrolledIn(response.class_id) :
            StudentAssessments(assessments, e.student_id, current_term,
                               response.class_id) = {}
            => \A r \in terminal_reports :
                  (r.student_id = e.student_id /\ r.term_id = current_term) =>
                     /\ r.total_marks = Null
                     /\ r.average_score = Null
                     /\ r.class_size = Null

\* the fields of a report that generation sets
Generated(r) ==
    [id |-> r.id, student_id |-> r.student_id, term_id |-> r.term_id,
     total_marks |-> r.total_marks, average_score |-> r.average_score,
     class_size |-> r.class_size, class_position |-> r.class_position,
     total_days |-> r.total_days, days_present |-> r.days_present,
     days_absent |-> r.days_absent]

\* C14: a successful generate_reports that directly follows a successful
\* generate_reports for the same class leaves the same reports, one per
\* (student, term), with the same aggregates, position and attendance.
C14_GenerateIsIdempotent ==
    [][ (/\ response.op = "generate_reports"
         /\ response.flash = "Successfully generated"
         /\ served' = served + 1
         /\ response'.op = "generate_reports"
         /\ response'.flash = "Successfully generated"
         /\ response'.class_id = response.class_id)
        => /\ {Generated(r) : r \in terminal_reports'} =
                 {Generated(r) : r \in terminal_reports}
           /\ \A r, o \in terminal_reports' :
                 (r.student_id = o.student_id /\ r.term_id = o.term_id) => r = o ]_vars

\* the stored reports of the students enrolled in a class, for a term
ReportsOf(class_id, term_id) ==
    {r \in terminal_reports :
        /\ r.term_id = term_id
        /\ \E e \in class_enrollments :
              e.student_id = r.student_id /\ e.class_id = class_id}

\* C15: publish_reports for a class and term with no generated report
\* changes no report, and answers an authorized user with the failure
\* message instead of the success message.
C15_PublishWithoutReportsWritesNothing ==
    [][ (/\ response'.op = "publish_reports"
         /\ served' = served + 1
         /\ current_term # 0
         /\ ReportsOf(response'.class_id, current_term) = {})
        => /\ terminal_reports' = terminal_reports
           /\ response'.flash # "Successfully published"
           /\ (/\ UserGet(response'.user).role \in AdminRoles
               /\ \E c \in ClassTable : c.id = response'.class_id)
              => response'.flash = "No reports found to publish." ]_vars

C15_Witness ==
    /\ response.op = "publish_reports"
    /\ response.flash = "No reports found to publish."
    /\ response.class_id = 2
    /\ terminal_reports # {}
    /\ \A r \in terminal_reports : ~r.is_published

\* C16: a successful publish_reports sets is_published and a fresh
\* published_at on every report of the class and current term and changes
\* no other report; an admin's publish of a class that has reports
\* succeeds, also when they are published already.
C16_PublishMarksExactlyTheCohort ==
    [][ (response'.op = "publish_reports" /\ served' = served + 1) =>
          LET cohort == ReportsOf(response'.class_id, current_term)
          IN  /\ (/\ UserGet(response'.user).role \in AdminRoles
                  /\ current_term # 0
                  /\ cohort # {})
                 => response'.flash = "Successfully published"
              /\ response'.flash = "Successfully published" =>
                    /\ Ids(terminal_reports') = Ids(terminal_reports)
                    /\ \A r \in terminal_reports \ cohort : r \in terminal_reports'
                    /\ \A r \in cohort :
                          \E n \in terminal_reports' :
                             /\ n = [r EXCEPT !.is_published = TRUE,
                                              !.published_at = n.published_at]
                             /\ n.published_at # Null
                             /\ \A o \in terminal_reports :
                                   o.published_at # Null =>
                                      n.published_at > o.published_at ]_vars

C16_Witness ==
    /\ probe # << >>
    /\ probe.op = "publish_reports"
    /\ probe.flash = "Successfully published"
    /\ probe.class_id = 1
    /\ response.op = "publish_reports"
    /\ response.flash = "Successfully published"
    /\ response.class_id = 1
    /\ \E r \in terminal_reports : r.student_id = JhsStudent /\ ~r.is_published
    /\ \A r \in terminal_reports :
          r.student_id \in Students => (r.is_published /\ r.published_at = served)

\* C17: a report is created by generate_reports and unpublished, and
\* is_published becomes true only on an existing report in a
\* publish_reports step.
C17_PublishedOnlyAfterGenerated ==
    [][ \A r \in terminal_reports' :
           /\ r.id \notin Ids(terminal_reports) =>
                 (response'.op = "generate_reports" /\ ~r.is_published)
           /\ r.is_published =>
                 \E o \in terminal_reports :
                    /\ o.id = r.id
                    /\ (o.is_published \/ response'.op = "publish_reports") ]_vars

C17_Witness ==
    /\ response.op = "generate_reports"
    /\ response.flash = "Successfully generated"
    /\ \E r \in terminal_reports : r.is_published
    /\ \E r \in terminal_reports : ~r.is_published

\* C18: the terminal_report view and the child_results list show a user
\* with the parent role only reports that are published and belong to a
\* student whose parent_id is the user's parent profile; any other request
\* of a parent to the terminal_report view is refused.
C18_ParentSeesOnlyOwnPublished ==
    (/\ response.op \in {"terminal_report", "child_results"}
     /\ UserGet(response.user).role = "parent")
    => /\ \A id \in response.shown :
             \E r \in terminal_reports :
                /\ r.id = id
                /\ r.is_published
                /\ UserGet(response.user).parent_id # Null
                /\ StudentParent(r.student_id) = UserGet(response.user).parent_id
       /\ (response.op = "terminal_report" /\ response.shown = {}) =>
             response.status \in {302, 404}

C18_Witness ==
    /\ response.op = "terminal_report"
    /\ response.user = 4
    /\ response.status = 200
    /\ \E r \in terminal_reports :
          r.id \in response.shown /\ r.student_id = 1 /\ r.is_published

\* the level the scale is taken from: the level of the class_subject's
\* class, uppercased, PRIMARY when that is none of PRIMARY, JHS, SHS
ClaimedLevel(class_subject_id) ==
    LET owning == {c \in ClassTable :
                      \E cs \in class_subjects :
                         cs.id = class_subject_id /\ cs.class_id = c.id}
    IN  IF \E c \in owning : c.level \in {"JHS", "SHS"}
        THEN (CHOOSE c \in owning : TRUE).level
        ELSE "PRIMARY"

\* C20: after a successful save_scores each assessment of the batch whose
\* total lies in an interval of the scale of the owning class's level
\* (PRIMARY for any level but PRIMARY, JHS, SHS) stores that interval's
\* grade and grade_remark.
C20_GradeFromTheClassLevelScale ==
    (response.op = "save_scores" /\ response.status = 200) =>
        LET scale == NACCA_GRADING_SCALE(ClaimedLevel(probe.class_subject_id))
        IN  \A i \in 1..Len(probe.scores) :
               \E a \in assessments :
                  /\ a.student_id = probe.scores[i].student_id
                  /\ a.class_subject_id = probe.class_subject_id
                  /\ a.term_id = current_term
                  /\ \A k \in 1..Len(scale) :
                        (/\ a.total_score # NaN
                         /\ scale[k][1] * Scale <= a.total_score
                         /\ a.total_score <= scale[k][2] * Scale)
                        => (a.grade = scale[k][3] /\ a.grade_remark = scale[k][4])

C20_Witness ==
    /\ response.op = "save_scores"
    /\ response.status = 200
    /\ probe.class_subject_id = 5
    /\ \E a \in assessments :
          /\ a.class_subject_id = 5
          /\ a.total_score = 50 * Scale
          /\ a.grade = "4"
          /\ a.grade_remark = "High Average"
    /\ \E a \in assessments :
          /\ a.class_subject_id = 4
          /\ a.total_score = 50 * Scale
          /\ a.grade = "C5"
          /\ a.grade_remark = "Credit"

\* C21: for every level the closed intervals of the configured scale are
\* pairwise disjoint and every integer score from 0 to 100 lies in one of
\* them, so an integer total is graded with the (grade, remark) of exactly
\* one interval.
C21_ScaleIntervalsPartitionZeroToHundred ==
    /\ \A level \in GradingLevels :
          LET scale == NACCA_GRADING_SCALE(level)
          IN  /\ \A i \in 1..Len(scale) : \A j \in 1..Len(scale) :
                    i # j => (scale[i][2] < scale[j][1] \/ scale[j][2] < scale[i][1])
              /\ \A total \in 0..100 :
                    \E k \in 1..Len(scale) :
                       scale[k][1] <= total /\ total <= scale[k][2]
    /\ (probe.state = "graded") =>
          LET scale == NACCA_GRADING_SCALE(probe.level)
              holding == {k \in 1..Len(scale) :
                             scale[k][1] <= probe.total /\ probe.total <= scale[k][2]}
          IN  /\ Cardinality(holding) = 1
              /\ \A k \in holding :
                    /\ probe.row.grade = scale[k][3]
                    /\ probe.row.grade_remark = scale[k][4]

C21_Witness ==
    /\ probe.state = "graded"
    /\ probe.level = "JHS"
    /\ probe.total = 79
    /\ probe.row.grade = "2"
    /\ probe.row.grade_remark = "Very Good"

\* the attendance records of a student dated within the term so far,
\* whatever class they were logged under
AttendanceInWindow(student_id, term_id) ==
    {r \in AttendanceTable :
        /\ r.student_id = student_id
        /\ \E tm \in TermTable :
              /\ tm.id = term_id
              /\ tm.start_date <= r.date
              /\ r.date <= tm.end_date
              /\ r.date <= Today}

\* C22: after a successful generate_reports each enrolled student's report
\* has total_days = the number of the student's attendance records dated
\* within [term.start_date, min(term.end_date, today)], days_present = the
\* number of those with status PRESENT or LATE and days_absent = the number
\* with status ABSENT, whichever class the records were logged under.
C22_AttendanceTalliesAfterGenerate ==
    (response.op = "generate_reports" /\ response.flash = "Successfully generated") =>
        \A e \in EnrolledIn(response.class_id) :
            \E r \in terminal_reports :
               LET records == AttendanceInWindow(e.student_id, current_term)
               IN  /\ r.student_id = e.student_id
                   /\ r.term_id = current_term
                   /\ r.total_days = Cardinality(records)
                   /\ r.days_present =
                         Cardinality({a \in records : a.status \in {"present", "late"}})
                   /\ r.days_absent =
                         Cardinality({a \in records : a.status = "absent"})

\* C23: a save_scores for one (class_subject, term) leaves every field of
\* every assessment of another class_subject or another term unchanged,
\* and leaves all terminal reports unchanged.
C23_SaveScoresTouchesOnlyItsCohort ==
    [][(response'.op = "save_scores" /\ served' = served + 1) =>
          /\ terminal_reports' = terminal_reports
          /\ \A a \in assessments :
                (a.class_subject_id # probe'.class_subject_id \/ a.term_id # current_term)
                => a \in assessments']_vars

C23_Witness ==
    /\ response.op = "save_scores"
    /\ response.status = 200
    /\ terminal_reports # {}
    /\ \E a \in assessments :
          a.class_subject_id = probe.class_subject_id /\ a.term_id = current_term
    /\ \E a \in assessments :
          a.class_subject_id # probe.class_subject_id /\ a.term_id # current_term

\* C24: in every reachable state each assessment references an existing
\* ClassSubject and an existing student, and each terminal report an
\* existing student: deleting a ClassSubject (as assign_subjects does
\* before it recreates them) removes its assessments, and deleting a
\* student removes the student's assessments and terminal reports.
C24_AssessmentsReferenceExistingRows ==
    /\ \A a \in assessments :
          /\ a.class_subject_id \in {cs.id : cs \in class_subjects}
          /\ a.student_id \in students
    /\ \A r \in terminal_reports : r.student_id \in students

C24_Witness ==
    /\ response.op = "delete_student"
    /\ \E a \in probe.assessments : a.student_id = probe.student_id
    /\ \E r \in probe.terminal_reports : r.student_id = probe.student_id
    /\ assessments # {}
    /\ terminal_reports # {}

\* C25: a successful generate_reports leaves is_published, published_at,
\* class_teacher_remarks and headteacher_remarks of every report that
\* existed before it unchanged, also when the report is published, while
\* it recomputes the aggregates of the students with assessments; a report
\* it creates is unpublished.
C25_GenerateKeepsPublicationAndRemarks ==
    [][(response'.op = "generate_reports" /\ response'.flash = "Successfully generated") =>
          \A n \in terminal_reports' :
             /\ \A r \in terminal_reports :
                   r.id = n.id =>
                      /\ n.is_published = r.is_published
                      /\ n.published_at = r.published_at
                      /\ n.class_teacher_remarks = r.class_teacher_remarks
                      /\ n.headteacher_remarks = r.headteacher_remarks
             /\ (\A r \in terminal_reports : r.id # n.id) =>
                      (n.is_published = FALSE /\ n.published_at = Null)
             /\ LET asmts == {a \in assessments :
                                 /\ a.student_id = n.student_id
                                 /\ a.term_id = current_term
                                 /\ \E cs \in class_subjects :
                                       /\ cs.id = a.class_subject_id
                                       /\ cs.class_id = response'.class_id}
                IN  (/\ n.term_id = current_term
                     /\ \E e \in EnrolledIn(response'.class_id) : e.student_id = n.student_id
                     /\ asmts # {}
                     /\ \A a \in asmts : a.total_score \notin {NaN, Null})
                    => n.total_marks = TotalOf(asmts)]_vars

C25_Witness ==
    /\ response.op = "generate_reports"
    /\ response.flash = "Successfully generated"
    /\ \E r \in terminal_reports :
          /\ r.is_published
          /\ r.published_at # Null
          /\ r.class_teacher_remarks = "Good"
          /\ r.total_marks # Null
    /\ \E r \in terminal_reports :
          /\ r.student_id = 2
          /\ ~r.is_published

\* the users the reports of a class may be generated and published by: an
\* admin, or the teacher whose staff profile is the class's class_teacher
MayManageReports(user, class_id) ==
    \E u \in UserTable :
       /\ u.id = user
       /\ \/ u.role \in {"super_admin", "headteacher", "admin"}
          \/ /\ u.role = "teacher"
             /\ u.staff_id # Null
             /\ \E c \in ClassTable : c.id = class_id /\ c.class_teacher_id = u.staff_id

\* C26: a generate_reports or publish_reports by a user who is neither an
\* admin nor the class teacher of the class (a teacher without a staff
\* profile included) is refused and creates or modifies no terminal report.
C26_OnlyAdminOrClassTeacherManagesReports ==
    [][(/\ response'.op \in {"generate_reports", "publish_reports"}
        /\ served' = served + 1
        /\ ~MayManageReports(response'.user, response'.class_id)) =>
          /\ terminal_reports' = terminal_reports
          /\ response'.status = 302
          /\ response'.flash \in {"Teacher access required.",
                                  "You can only generate reports for your own class.",
                                  "You can only publish reports for your own class."}]_vars

C26_Witness ==
    /\ response.op = "publish_reports"
    /\ response.user = 7
    /\ response.flash = "You can only publish reports for your own class."
    /\ \E r \in ReportsOf(response.class_id, current_term) : ~r.is_published

\* C27: what the parent portal shows a user with the PARENT role of a
\* child's assessments (scores, grades, subject positions) of a term
\* belongs to a term whose terminal report of the child is published.
C27_ParentReadsScoresOnlyAfterPublication ==
    (response.op \in {"child_profile", "child_results"}
        /\ \E u \in UserTable : u.id = response.user /\ u.role = "parent") =>
        \A a \in response.recent_assessments :
           \E r \in terminal_reports :
              /\ r.student_id = a.student_id
              /\ r.term_id = a.term_id
              /\ r.is_published

\* the school of the acting user
SchoolOf(user) == (CHOOSE u \in UserTable : u.id = user).school_id

\* C28: a save_scores, generate_reports or publish_reports of a user of
\* school S creates or modifies only assessments and terminal reports of
\* students, classes and terms of school S.
C28_WritesStayInsideTheSchool ==
    [][(/\ response'.op \in {"save_scores", "generate_reports", "publish_reports"}
        /\ served' = served + 1) =>
          /\ \A a \in assessments' \ assessments :
                /\ StudentSchool(a.student_id) = SchoolOf(response'.user)
                /\ TermSchool(a.term_id) = SchoolOf(response'.user)
                /\ \A cs \in class_subjects :
                      cs.id = a.class_subject_id =>
                         ClassSchool(cs.class_id) = SchoolOf(response'.user)
          /\ \A r \in terminal_reports' \ terminal_reports :
                /\ StudentSchool(r.student_id) = SchoolOf(response'.user)
                /\ TermSchool(r.term_id) = SchoolOf(response'.user)
                /\ \A e \in class_enrollments :
                      e.id = r.class_enrollment_id =>
                         ClassSchool(e.class_id) = SchoolOf(response'.user)]_vars

\* C29: for the same four components and the same class level string the
\* preview of api_calculate_grade has the total, grade and remark that
\* save_scores stores on the assessment, for every level a class can have.
C29_PreviewAgreesWithStoredGrade ==
    (probe.state = "done") =>
        /\ probe.preview.total = probe.row.total_score
        /\ probe.preview.grade = probe.row.grade
        /\ probe.preview.remark = probe.row.grade_remark

\* the sum of the amounts of a set of payments
RECURSIVE AmountOf(_)
AmountOf(rows) ==
    IF rows = {} THEN 0
    ELSE LET p == CHOOSE x \in rows : TRUE
         IN  p.amount + AmountOf(rows \ {p})

\* C30: whenever no record_payment is in flight, each invoice has
\* amount_paid = the sum of its payments <= total_amount - discount_amount,
\* balance = total_amount - discount_amount - amount_paid >= 0 and status
\* COMPLETED exactly when balance = 0; and a request with amount <= 0 or
\* amount > balance records no payment and leaves the invoice unchanged.
C30_InvoiceMatchesItsPayments ==
    /\ []((\A r \in Workers : sessions[r].pc \in {"idle", "done"}) =>
            \A inv \in fee_invoices :
               /\ inv.amount_paid =
                     AmountOf({p \in payments : p.invoice_id = inv.id})
               /\ inv.amount_paid <= inv.total_amount - inv.discount_amount
               /\ inv.balance = inv.total_amount - inv.discount_amount - inv.amount_paid
               /\ inv.balance >= 0
               /\ (inv.status = "completed") <=> (inv.balance = 0))
    /\ [][(/\ served' = served + 1
           /\ \E inv \in fee_invoices :
                 /\ inv.id = probe'.invoice_id
                 /\ (probe'.amount <= 0 \/ probe'.amount > inv.balance)) =>
             /\ payments' = payments
             /\ fee_invoices' = fee_invoices
             /\ \A r \in Workers :
                   sessions'[r] # sessions[r] => sessions'[r].pc = "done"]_vars

====
